---- MODULE Spec2Model ----
(***************************************************************************)
(* State-machine model of healthchecks-utilities (src/src): the expiry     *)
(* check of one domain (marker gate, WHOIS / registrar lookup, tier        *)
(* classification, ping, tag reconciliation) and the creation of checks    *)
(* for the entries of the registry file.                                   *)
(*                                                                         *)
(* Conventions                                                             *)
(*  - a Python str that is inspected piecewise is a sequence: a domain     *)
(*    name is the sequence of its dot-separated labels, an id or an URL    *)
(*    path the sequence of its '/'-separated segments, a tag string the    *)
(*    sequence of its blank-separated tags;                                *)
(*  - an optional value (None or a value) is the empty set or a singleton; *)
(*  - None and "" are both the empty sequence where the code only tests    *)
(*    truthiness (ids in registry lines);                                  *)
(*  - instants are integer seconds (UTC), durations are seconds;           *)
(*  - the local file system under MARKER_DIR is reliable (the except       *)
(*    branches that only log an OSError are not taken); HTTP calls and     *)
(*    the whois subprocess may fail.                                       *)
(***************************************************************************)
EXTENDS Integers, Sequences, FiniteSets, TLC

VARIABLES
    now,         \* the wall clock, seconds
    markers,     \* MARKER_DIR: domain -> mtime of expiry_check_<domain>
    remote,      \* the monitoring service: check id -> [name, tags]
    run,         \* what the last handler invocation did: its calls and results
    file,        \* DOMAIN_FILE: the registry, a sequence of raw lines
    probe,       \* argument and result of a pure function under test
    session      \* the commands invoked so far and the place of a running check command

vars == <<now, markers, remote, run, file, probe, session>>

-----------------------------------------------------------------------------
(* Bounds of the model *)

MaxWindows == 1     \* the clock stops after this many freshness windows
MaxTags == 2        \* length of the tag strings a check starts with
MaxChecks == 4      \* the service refuses to create a check beyond this many
MaxDays == 100      \* the classifier is applied to -MaxDays..MaxDays
MaxCommands == 1    \* maintenance commands invoked in one behaviour
MaxLines == 2       \* lines of the longer WHOIS texts and of the registry files loaded

(* Units and program constants *)

SecondsPerHour == 3600
SecondsPerDay == 86400
MAX_AGE_HOURS == 23

None == {}
Some(x) == {x}
TheValue(o) == CHOOSE x \in o : TRUE

EmptyStr == <<>>
Truthy(s) == s # EmptyStr

Last(s) == s[Len(s)]

Range(s) == {s[i] : i \in 1..Len(s)}

-----------------------------------------------------------------------------
(* Domain names *)

\* str.count('.') of a name given by its labels
DotCount(domain) == Len(domain) - 1

\* check.py:49, create.py:21, create.py:132
IsSubdomain(domain) == DotCount(domain) > 1

-----------------------------------------------------------------------------
(* Tags and tiers: check.py:24-37 *)

EXPIRY_LEVELS ==
    << [threshold |-> 0,  tag |-> "expired"],
       [threshold |-> 7,  tag |-> "expires_in_<7d"],
       [threshold |-> 30, tag |-> "expires_in_<30d"],
       [threshold |-> 60, tag |-> "expires_in_<60d"],
       [threshold |-> 90, tag |-> "expires_in_<90d"] >>

OK_TAG == "expiry_ok"
LOOKUP_FAILED_TAG == "lookup_failed"

\* mutant: the list built from the levels alone, the two standard tags forgotten
ManagedTagsFromLevels == [i \in 1..Len(EXPIRY_LEVELS) |-> EXPIRY_LEVELS[i].tag]

MANAGED_EXPIRY_TAGS ==
    [i \in 1..Len(EXPIRY_LEVELS) |-> EXPIRY_LEVELS[i].tag] \o <<OK_TAG, LOOKUP_FAILED_TAG>>

\* the tags of the model in the order of Python's str comparison (code points)
TagOrder ==
    << "expired", "expires_in_<30d", "expires_in_<60d", "expires_in_<7d",
       "expires_in_<90d", "expiry", "expiry_ok", "lookup_failed", "vip" >>

TagRank(t) == CHOOSE i \in 1..Len(TagOrder) : TagOrder[i] = t

RECURSIVE Insert(_, _)
Insert(t, s) ==
    IF s = <<>> THEN <<t>>
    ELSE IF TagRank(t) <= TagRank(Head(s)) THEN <<t>> \o s
    ELSE <<Head(s)>> \o Insert(t, Tail(s))

RECURSIVE Sorted(_)
\* sorted(tags_list)
Sorted(s) == IF s = <<>> THEN <<>> ELSE Insert(Head(s), Sorted(Tail(s)))

RECURSIVE FirstLevelStrict(_, _)
\* mutant: a level is taken only when days_left is under its threshold
FirstLevelStrict(days_left, i) ==
    IF i > Len(EXPIRY_LEVELS) THEN None
    ELSE IF days_left < EXPIRY_LEVELS[i].threshold THEN Some(EXPIRY_LEVELS[i].tag)
    ELSE FirstLevelStrict(days_left, i + 1)

RECURSIVE FirstLevel(_, _)
\* the loop of check.py:77-80: the tag of the first level with days_left <= threshold
FirstLevel(days_left, i) ==
    IF i > Len(EXPIRY_LEVELS) THEN None
    ELSE IF days_left <= EXPIRY_LEVELS[i].threshold THEN Some(EXPIRY_LEVELS[i].tag)
    ELSE FirstLevel(days_left, i + 1)

\* check.py:77-83
DesiredTag(days_left) ==
    LET hit == FirstLevel(days_left, 1)
    IN  IF hit = None THEN OK_TAG ELSE TheValue(hit)

\* (expiry_date - now).days: timedelta.days is the floor of the day count
DaysLeft(expiry_date, t) == (expiry_date - t) \div SecondsPerDay

-----------------------------------------------------------------------------
(* Marker cache: file_handler.py:59-96 *)

MarkerExists(m, domain) == domain \in DOMAIN m

\* calculated_age = now - mtime, of an existing marker
MarkerAge(m, t, domain) == t - m[domain]

\* mutant: the age compared with <= instead of <
IsMarkerValidInclusive(m, t, domain) ==
    /\ MarkerExists(m, domain)
    /\ MarkerAge(m, t, domain) <= MAX_AGE_HOURS * SecondsPerHour

\* the value is_marker_valid(domain) returns
IsMarkerValid(m, t, domain) ==
    /\ MarkerExists(m, domain)
    /\ MarkerAge(m, t, domain) < MAX_AGE_HOURS * SecondsPerHour

\* mutant: a valid marker is touched when it is read
MarkersAfterIsMarkerValidTouch(m, t, domain) ==
    IF ~MarkerExists(m, domain) THEN m
    ELSE IF IsMarkerValid(m, t, domain) THEN [m EXCEPT ![domain] = t]
    ELSE [d \in DOMAIN m \ {domain} |-> m[d]]

\* MARKER_DIR after is_marker_valid(domain): a stale marker is unlinked
MarkersAfterIsMarkerValid(m, t, domain) ==
    IF MarkerExists(m, domain) /\ ~IsMarkerValid(m, t, domain)
    THEN [d \in DOMAIN m \ {domain} |-> m[d]]
    ELSE m

\* mutant: no marker is written
CreateExpiryMarkerNever(m, t, domain) == m

\* MARKER_DIR after create_expiry_marker(domain): touch sets the mtime
CreateExpiryMarker(m, t, domain) ==
    [d \in DOMAIN m \cup {domain} |-> IF d = domain THEN t ELSE m[d]]

-----------------------------------------------------------------------------
(* WHOIS: services.py:78-189                                               *)
(* A WHOIS text is a sequence of lines. A line is [label, value]: the      *)
(* label is the sequence of the words before the colon, case-folded (the   *)
(* search is IGNORECASE), <<>> for a line without a label; the value is    *)
(* [shape, at]: the way the date after the colon is written and the        *)
(* instant it denotes, shape "none" when nothing follows the colon.        *)

\* formats_to_try (services.py:117-131), each named by the way it writes the
\* 31st of December 2029
FormatsToTry ==
    << "iso_z",              \* %Y-%m-%dT%H:%M:%SZ
       "y.m.d",              \* %Y.%m.%d
       "ymd",                \* %Y-%m-%d
       "ymd",                \* %Y-%m-%d
       "y/m/d",              \* %Y/%m/%d
       "d/m/y",              \* %d/%m/%Y
       "d-m-y",              \* %d-%m-%Y
       "d_mon_y",            \* %d-%b-%Y
       "d mon y",            \* %d %b %Y
       "d month y",          \* %d %B %Y
       "ymd8",               \* %Y%m%d
       "y.m.d h:m:s",        \* %Y.%m.%d %H:%M:%S
       "ymd h:m:s" >>        \* %Y-%m-%d %H:%M:%S

\* a value as one blank-free token: written in a format, as 10 or 13 digits of
\* a UNIX time, as an ISO or dd-Mon-yyyy form with a field out of range, as
\* two digits, or as something else
TokenShapes ==
    { "iso_z", "y.m.d", "ymd", "y/m/d", "d/m/y", "d-m-y", "d_mon_y", "ymd8",
      "epoch10", "epoch13", "iso_z_invalid", "d_mon_y_invalid", "digits2", "garbage" }

\* the shapes of a value of several words
SpacedShapes == { "d mon y", "d month y", "y.m.d h:m:s", "ymd h:m:s" }

\* the first blank-free token of a value, which is all that (\S+) captures:
\* the day of "31 Dec 2029", the date of "2029-12-31 12:00:00"
FirstToken(value) ==
    IF value.shape \in {"d mon y", "d month y"} THEN [shape |-> "digits2", at |-> 0]
    ELSE IF value.shape = "y.m.d h:m:s"
    THEN [shape |-> "y.m.d", at |-> value.at - (value.at % SecondsPerDay)]
    ELSE IF value.shape = "ymd h:m:s"
    THEN [shape |-> "ymd", at |-> value.at - (value.at % SecondsPerDay)]
    ELSE value

Patterns ==
    << [labels |-> { <<"registry", "expiry", "date">>, <<"expiration", "date">>,
                     <<"expiry", "date">>, <<"paid-till">> },
        shapes |-> {"iso_z", "iso_z_invalid"}],
       [labels |-> { <<"expires">>, <<"expiry", "date">> },
        shapes |-> {"d_mon_y", "d_mon_y_invalid"}],
       [labels |-> { <<"registry", "expiry", "date">>, <<"expiration", "date">>,
                     <<"expiry", "date">>, <<"paid-till">>, <<"expiration", "time">> },
        shapes |-> TokenShapes] >>

\* re.search is not anchored: an alternative matches where it ends the label
IsSuffix(alt, label) ==
    /\ Len(alt) <= Len(label)
    /\ SubSeq(label, Len(label) - Len(alt) + 1, Len(label)) = alt

RECURSIVE TokenFrom(_, _)
\* the first token of the text from line j on: \s* runs over line ends, so it
\* is the first token of the first line that is not blank, which for a line
\* with a label is a word of the label
TokenFrom(text, j) ==
    IF j > Len(text) THEN None
    ELSE IF text[j].label # <<>> THEN Some([shape |-> "garbage", at |-> 0])
    ELSE IF text[j].value.shape # "none" THEN Some(FirstToken(text[j].value))
    ELSE TokenFrom(text, j + 1)

\* the token that follows the colon of line i
TokenAfterLabel(text, i) ==
    IF text[i].value.shape # "none" THEN Some(FirstToken(text[i].value))
    ELSE TokenFrom(text, i + 1)

LineMatches(pattern, text, i) ==
    /\ \E alt \in pattern.labels : IsSuffix(alt, text[i].label)
    /\ TokenAfterLabel(text, i) # None
    /\ TheValue(TokenAfterLabel(text, i)).shape \in pattern.shapes

\* mutant: the group of the last match in the text
ReSearchLast(pattern, text) ==
    LET hits == {i \in 1..Len(text) : LineMatches(pattern, text, i)}
    IN  IF hits = {} THEN None
        ELSE TokenAfterLabel(text, CHOOSE i \in hits : \A j \in hits : i >= j)

\* re.search(pattern, whois_output): the group of the first match in the text
ReSearch(pattern, text) ==
    LET hits == {i \in 1..Len(text) : LineMatches(pattern, text, i)}
    IN  IF hits = {} THEN None
        ELSE TokenAfterLabel(text, CHOOSE i \in hits : \A j \in hits : i <= j)

\* the UNIX timestamp case and the strptime formats of services.py:146-166
ParseDate(value) ==
    IF value.shape \in {"epoch10", "epoch13"} THEN Some(value.at)
    ELSE IF \E k \in 1..Len(FormatsToTry) : FormatsToTry[k] = value.shape THEN Some(value.at)
    ELSE None

RECURSIVE TryPatterns(_, _)
\* the loop of services.py:133-166 from pattern k on
TryPatterns(text, k) ==
    IF k > Len(Patterns) THEN None
    ELSE LET match == ReSearch(Patterns[k], text)
         IN  IF match = None THEN TryPatterns(text, k + 1)
             ELSE IF ParseDate(TheValue(match)) # None THEN ParseDate(TheValue(match))
             ELSE TryPatterns(text, k + 1)

\* _parse_expiry_from_whois(whois_output)
ParseExpiryFromWhois(text) == IF text = <<>> THEN None ELSE TryPatterns(text, 1)

\* run_whois(domain): stdout when the subprocess exits with 0, else None
RunWhois(proc) == IF proc.ended = "exit" /\ proc.returncode = 0 THEN Some(proc.stdout) ELSE None

-----------------------------------------------------------------------------
(* Registrar fallback: services.py:14-76 *)

\* services.py:16: both GODADDY_API_KEY and GODADDY_API_SECRET are set and not empty
Configured(key, secret) == key = "set" /\ secret = "set"

\* the offset of the zone in the replies that write the date with an offset
ReplyOffset == 3 * SecondsPerHour

\* what ends the try block of services.py:27-61 early: the exception raised by
\* requests.get, raise_for_status, response.json() or the handling of 'expires'
ExceptionOf(reply) ==
    CASE reply = "timeout" -> "Timeout"
      [] reply = "connection_error" -> "ConnectionError"
      [] reply \in {"http400", "http500"} -> "HTTPError"
      [] reply = "not_json" -> "JSONDecodeError"
      [] reply = "expires_not_text" -> "AttributeError"
      [] OTHER -> "none"

\* the classes each exception is an instance of
ClassesOf(exception) ==
    CASE exception \in {"Timeout", "ConnectionError", "HTTPError"} ->
            {exception, "RequestException", "Exception"}
      [] exception = "JSONDecodeError" -> {"JSONDecodeError", "ValueError", "Exception"}
      [] OTHER -> {exception, "Exception"}

\* mutant: the except clauses without the last one
HandlersWithoutCatchAll == <<"Timeout", "RequestException", "JSONDecodeError">>

\* the except clauses of services.py:63-73
Handlers == <<"Timeout", "RequestException", "JSONDecodeError", "Exception">>

\* the date of a reply with status 200: services.py:43-61
DateOfReply(gd) ==
    CASE gd.reply = "ok" -> Some(gd.expires)
      [] gd.reply = "ok_offset" -> Some(gd.expires - ReplyOffset)
      [] OTHER -> None

\* _get_expiry_from_godaddy(domain): the date returned, the requests sent and
\* whether an exception leaves the function
GodaddyLookup(gd) ==
    IF ~gd.configured THEN [date |-> None, requests |-> 0, raised |-> FALSE]
    ELSE IF gd.reply \in {"http404", "http401", "http403", "http429"}
    THEN [date |-> None, requests |-> 1, raised |-> FALSE]
    ELSE IF ExceptionOf(gd.reply) # "none"
    THEN [date |-> None, requests |-> 1,
          raised |-> ~\E h \in 1..Len(Handlers) : Handlers[h] \in ClassesOf(ExceptionOf(gd.reply))]
    ELSE [date |-> DateOfReply(gd), requests |-> 1, raised |-> FALSE]

\* _get_expiry_from_godaddy(domain), given the configuration and the reply
GetExpiryFromGodaddy(gd) == GodaddyLookup(gd).date

-----------------------------------------------------------------------------
(* Monitoring service client: api_client.py:53-202 *)

Call(op, target, payload, tags, result) ==
    [op |-> op, target |-> target, payload |-> payload, tags |-> tags, result |-> result]

CallsOf(calls, op) == SelectSeq(calls, LAMBDA c : c.op = op)

\* BASE_URL starts with http:// or https:// (config.py:12)
BaseUrlIsHttp == TRUE

\* ping_check(uuid, endpoint_suffix, payload): the requests it issues
PingCheck(uuid, endpoint_suffix, payload) ==
    IF ~Truthy(uuid) THEN <<>>
    ELSE IF ~BaseUrlIsHttp THEN <<>>
    ELSE << Call("ping", uuid \o endpoint_suffix, payload, <<>>, EmptyStr) >>

FailSuffix == <<"fail">>

Payload(status, days_left) == Some([status |-> status, days_left |-> days_left])

\* a ping whose URL ends in /fail signals failure
IsFailPing(call) == call.op = "ping" /\ call.target # <<>> /\ Last(call.target) = "fail"

\* the tags_string update_check_tags posts: " ".join(sorted(tags_list))
TagsString(tags_list) == Sorted(tags_list)

Check(name, tags) == [name |-> name, tags |-> tags]

RECURSIVE DomainText(_)
\* the labels of a name joined with dots
DomainText(domain) ==
    IF domain = <<>> THEN ""
    ELSE IF Len(domain) = 1 THEN Head(domain)
    ELSE Head(domain) \o "." \o DomainText(Tail(domain))

\* the id the service gives the check it creates: one no check has yet
NewUuid(r, domain, check_type) ==
    LET id(k) == << check_type \o "-" \o DomainText(domain) \o "-" \o ToString(k) >>
        k == CHOOSE i \in 1..(Cardinality(DOMAIN r) + 1) :
                 id(i) \notin DOMAIN r /\ \A j \in 1..(i - 1) : id(j) \in DOMAIN r
    IN  id(k)

\* the service after POST checks/ accepted: a check named after the domain, tagged
\* with its kind (api_client.py:56-61)
RemoteAfterCreate(r, domain, check_type) ==
    [id \in DOMAIN r \cup {NewUuid(r, domain, check_type)} |->
        IF id \in DOMAIN r THEN r[id] ELSE Check(domain, <<check_type>>)]

-----------------------------------------------------------------------------
(* Registry file: file_handler.py:10-57                                    *)
(* A raw line is [kind, text, domain, tokens]: kind is "blank", "comment"  *)
(* or "domain"; a domain line is its first word (the name) and the         *)
(* sequence of the other words, each [key, val] for "<key>:<val>".         *)

BlankLine == [kind |-> "blank", text |-> "", domain |-> <<>>, tokens |-> <<>>]
CommentLine(text) == [kind |-> "comment", text |-> text, domain |-> <<>>, tokens |-> <<>>]
DomainLine(domain, tokens) == [kind |-> "domain", text |-> "", domain |-> domain, tokens |-> tokens]
Token(key, val) == [key |-> key, val |-> val]

RECURSIVE TokenValue(_, _, _)
\* the loop "for part in parts[1:]": the value of the last <key>: token, None without one
TokenValue(tokens, key, acc) ==
    IF tokens = <<>> THEN acc
    ELSE TokenValue(Tail(tokens), key,
                    IF Head(tokens).key = key THEN Head(tokens).val ELSE acc)

\* mutant: the first word after the name, whatever its key
StatusUuidOfFirstToken(line) == IF line.tokens = <<>> THEN EmptyStr ELSE Head(line.tokens).val

StatusUuidOf(line) == TokenValue(line.tokens, "s", EmptyStr)
ExpiryUuidOf(line) == TokenValue(line.tokens, "e", EmptyStr)

Entry(domain, status_uuid, expiry_uuid) ==
    [domain |-> domain, status_uuid |-> status_uuid, expiry_uuid |-> expiry_uuid]

RECURSIVE LoadDomains(_)
\* load_domains(): the valid entries of the file, in file order
LoadDomains(f) ==
    IF f = <<>> THEN <<>>
    ELSE LET line == Head(f)
             keep == /\ line.kind = "domain"
                     /\ Truthy(line.domain)
                     /\ (Truthy(StatusUuidOf(line)) \/ Truthy(ExpiryUuidOf(line)))
         IN  (IF keep THEN <<Entry(line.domain, StatusUuidOf(line), ExpiryUuidOf(line))>>
              ELSE <<>>) \o LoadDomains(Tail(f))

-----------------------------------------------------------------------------
(* check_domain_expiry: actions/check.py:39-122 *)

NoRun ==
    [handler |-> "none", domain |-> <<>>, uuid |-> <<>>, outcome |-> "idle",
     marker_age |-> None, marker_valid |-> FALSE, marker_kept |-> FALSE, calls |-> <<>>,
     whois_date |-> None, registrar_date |-> None, days_left |-> None,
     desired |-> None, current |-> None, sent |-> None, update |-> "none",
     rewritten |-> FALSE, status_only |-> FALSE, expiry_only |-> FALSE,
     pulled |-> FALSE, force |-> FALSE, prompted |-> FALSE, answer |-> "",
     deletes |-> {}, dropped |-> {}, added |-> <<>>, reported |-> None]

\* the run as the marker gate leaves it (check.py:43): the marker's age at the
\* call, the value is_marker_valid returned, whether the marker is still there
AfterGate(domain, expiry_uuid, outcome, calls) ==
    [NoRun EXCEPT !.handler = "check_domain_expiry",
                  !.domain = domain, !.uuid = expiry_uuid,
                  !.outcome = outcome, !.calls = calls,
                  !.marker_age = IF MarkerExists(markers, domain)
                                 THEN Some(MarkerAge(markers, now, domain)) ELSE None,
                  !.marker_valid = IsMarkerValid(markers, now, domain),
                  !.marker_kept = MarkerExists(MarkersAfterIsMarkerValid(markers, now, domain), domain)]

\* mutant: the registrar is asked whatever WHOIS gave
AlwaysNeedRegistrar(expiry_date) == TRUE

\* check.py:60: the registrar is asked when there is no date yet
NeedRegistrar(expiry_date) == expiry_date = None

\* mutant: only "expired" is pinged as a failure
OutcomePingExpiredOnly(expiry_uuid, desired_tag, days_left) ==
    IF days_left = None
    THEN PingCheck(expiry_uuid \o FailSuffix, EmptyStr, Payload("lookup_failed", None))
    ELSE IF desired_tag = "expired"
    THEN PingCheck(expiry_uuid \o FailSuffix, EmptyStr, Payload("expired", days_left))
    ELSE IF desired_tag = OK_TAG
    THEN PingCheck(expiry_uuid, EmptyStr, Payload("ok", days_left))
    ELSE PingCheck(expiry_uuid, EmptyStr, Payload("expiring_soon", days_left))

\* check.py:86-101: the ping of the outcome
OutcomePing(expiry_uuid, desired_tag, days_left) ==
    IF days_left = None
    THEN PingCheck(expiry_uuid \o FailSuffix, EmptyStr, Payload("lookup_failed", None))
    ELSE IF desired_tag = "expired"
    THEN PingCheck(expiry_uuid \o FailSuffix, EmptyStr, Payload("expired", days_left))
    ELSE IF desired_tag = "expires_in_<7d"
    THEN PingCheck(expiry_uuid \o FailSuffix, EmptyStr, Payload("expiring_soon", days_left))
    ELSE IF desired_tag \in {"expires_in_<30d", "expires_in_<60d", "expires_in_<90d"}
    THEN PingCheck(expiry_uuid, EmptyStr, Payload("expiring_soon", days_left))
    ELSE PingCheck(expiry_uuid, EmptyStr, Payload("ok", days_left))

\* mutant: the desired tag counts as present only when it is the whole tag string
TagAlreadyPresentAlone(desired_tag, current_tags) == current_tags = <<desired_tag>>

\* check.py:114: desired_tag in current_tags
TagAlreadyPresent(desired_tag, current_tags) == desired_tag \in Range(current_tags)

\* mutant: the tag list replaced by the desired tag alone
NewTagsClobber(current_tags, desired_tag) == <<desired_tag>>

\* check.py:119-120: the managed tags dropped, the desired tag appended
NewTags(current_tags, desired_tag) ==
    SelectSeq(current_tags, LAMBDA tag : tag \notin Range(MANAGED_EXPIRY_TAGS)) \o <<desired_tag>>

\* mutant: missing details taken for an empty tag string, and the update sent
ReconcileCallsBlind(expiry_uuid, fetched, current_tags, desired_tag) ==
    << Call("get_check", expiry_uuid, None, <<>>, EmptyStr) >> \o
    (IF ~TagAlreadyPresent(desired_tag, current_tags)
     THEN << Call("update_tags", expiry_uuid, None, NewTags(current_tags, desired_tag), EmptyStr) >>
     ELSE <<>>)

\* mutant: the details are asked for again when they did not come back
ReconcileCallsRetry(expiry_uuid, fetched, current_tags, desired_tag) ==
    << Call("get_check", expiry_uuid, None, <<>>, EmptyStr) >> \o
    (IF ~fetched THEN << Call("get_check", expiry_uuid, None, <<>>, EmptyStr) >> ELSE <<>>) \o
    (IF fetched /\ ~TagAlreadyPresent(desired_tag, current_tags)
     THEN << Call("update_tags", expiry_uuid, None, NewTags(current_tags, desired_tag), EmptyStr) >>
     ELSE <<>>)

\* check.py:107-122: the calls of the reconciliation, given whether the details
\* came back and what they hold
ReconcileCalls(expiry_uuid, fetched, current_tags, desired_tag) ==
    << Call("get_check", expiry_uuid, None, <<>>, EmptyStr) >> \o
    (IF fetched /\ ~TagAlreadyPresent(desired_tag, current_tags)
     THEN << Call("update_tags", expiry_uuid, None, NewTags(current_tags, desired_tag), EmptyStr) >>
     ELSE <<>>)

\* the replies of the service to POST checks/<uuid>: the tags are stored and the
\* check returned ("ok"), the request fails and nothing is stored ("failed"), or
\* the tags are stored and the reply never arrives ("reply_lost")
UpdateReplies == {"ok", "failed", "reply_lost"}

\* check.py:103-122 after the ping: fetch, compare, update
Reconcile(base, expiry_uuid, desired_tag) ==
    \E fetched \in (IF expiry_uuid \in DOMAIN remote THEN BOOLEAN ELSE {FALSE}) :
        LET current_tags == IF fetched THEN remote[expiry_uuid].tags ELSE <<>>
            calls == base.calls \o ReconcileCalls(expiry_uuid, fetched, current_tags, desired_tag)
            updates == CallsOf(calls, "update_tags")
        IN  IF updates = <<>>
            THEN /\ run' = [base EXCEPT !.outcome = IF fetched THEN "tag_present" ELSE "fetch_failed",
                                        !.calls = calls,
                                        !.current = IF fetched THEN Some(current_tags) ELSE None]
                 /\ UNCHANGED remote
            ELSE \E reply \in UpdateReplies :
                    /\ run' = [base EXCEPT !.outcome = "updated", !.calls = calls,
                                           !.current = IF fetched THEN Some(current_tags) ELSE None,
                                           !.sent = Some(updates[1].tags),
                                           !.update = reply]
                    /\ remote' = IF reply = "failed" \/ expiry_uuid \notin DOMAIN remote THEN remote
                                 ELSE [remote EXCEPT ![expiry_uuid].tags = TagsString(updates[1].tags)]

\* check.py:55-101: lookup, marker, classification, ping; then the reconciliation
FullCheck(domain, expiry_uuid, proc, gd) ==
    LET whois_output == RunWhois(proc)
        whois_date == IF whois_output # None /\ TheValue(whois_output) # <<>>
                      THEN ParseExpiryFromWhois(TheValue(whois_output)) ELSE None
        asked == NeedRegistrar(whois_date)
        registrar_date == IF asked THEN GetExpiryFromGodaddy(gd) ELSE None
        expiry_date == IF asked THEN registrar_date ELSE whois_date
        lookups == <<Call("whois", domain, None, <<>>, EmptyStr)>> \o
                   (IF asked THEN <<Call("godaddy", domain, None, <<>>, EmptyStr)>> ELSE <<>>)
        days_left == IF expiry_date # None THEN Some(DaysLeft(TheValue(expiry_date), now)) ELSE None
        desired_tag == IF expiry_date # None THEN DesiredTag(TheValue(days_left)) ELSE LOOKUP_FAILED_TAG
        calls == lookups \o OutcomePing(expiry_uuid, desired_tag, days_left)
        base == [AfterGate(domain, expiry_uuid, "pinged", calls) EXCEPT
                     !.whois_date = whois_date, !.registrar_date = registrar_date,
                     !.days_left = days_left, !.desired = Some(desired_tag)]
    IN  /\ markers' = CreateExpiryMarker(MarkersAfterIsMarkerValid(markers, now, domain), now, domain)
        /\ Reconcile(base, expiry_uuid, desired_tag)

\* what the environment may answer to "whois <domain>" at time t
DayChoices == {-5, 0, 7, 30, 31, 90, 91}

WhoisLine(label, shape, at) == [label |-> label, value |-> [shape |-> shape, at |-> at]]

WhoisProc(ended, returncode, stdout) == [ended |-> ended, returncode |-> returncode, stdout |-> stdout]

WhoisProcs(t) ==
    { WhoisProc("exit", 1, <<>>),
      WhoisProc("timeout", 0, <<>>),
      WhoisProc("exit", 0, <<>>),
      WhoisProc("exit", 0, <<WhoisLine(<<"registrar">>, "garbage", 0)>>),
      WhoisProc("exit", 0, <<WhoisLine(<<"registry", "expiry", "date">>, "garbage", 0)>>) }
    \cup { WhoisProc("exit", 0, <<WhoisLine(<<"registry", "expiry", "date">>, "iso_z",
                                            t + d * SecondsPerDay)>>) : d \in DayChoices }
    \cup { WhoisProc("exit", 0, <<WhoisLine(<<"expiry", "date">>, "iso_z",
                                            t + 8 * SecondsPerDay - 1)>>) }
    \cup { WhoisProc("exit", 0, <<WhoisLine(<<"expiry", "date">>, "iso_z",
                                            t + 12 * SecondsPerHour)>>) }

\* the configuration and the reply of the registrar at time t
Registrar(configured, reply, expires) == [configured |-> configured, reply |-> reply, expires |-> expires]

RegistrarNotAsked == Registrar(FALSE, "not_asked", 0)

Registrars(t) ==
    { Registrar(FALSE, "none", 0), Registrar(TRUE, "http404", 0), Registrar(TRUE, "timeout", 0) }
    \cup { Registrar(TRUE, "ok", t + d * SecondsPerDay) : d \in {7, 91} }

\* check.py:55-58: the date WHOIS gives
WhoisDate(proc) ==
    LET whois_output == RunWhois(proc)
    IN  IF whois_output # None /\ TheValue(whois_output) # <<>>
        THEN ParseExpiryFromWhois(TheValue(whois_output)) ELSE None

\* check_domain_expiry(domain, expiry_uuid)
CheckDomainExpiry(domain, expiry_uuid) ==
    /\ UNCHANGED <<now, file, probe>>
    /\ IF IsMarkerValid(markers, now, domain)
       THEN /\ run' = AfterGate(domain, expiry_uuid, "marker_valid", <<>>)
            /\ markers' = MarkersAfterIsMarkerValid(markers, now, domain)
            /\ UNCHANGED remote
       ELSE IF IsSubdomain(domain)
       THEN /\ run' = AfterGate(domain, expiry_uuid, "subdomain",
                                PingCheck(expiry_uuid, EmptyStr, Payload("skipped_subdomain", None)))
            /\ markers' = MarkersAfterIsMarkerValid(markers, now, domain)
            /\ UNCHANGED remote
       ELSE \E proc \in WhoisProcs(now) :
                \E gd \in (IF NeedRegistrar(WhoisDate(proc)) THEN Registrars(now) ELSE {RegistrarNotAsked}) :
                    FullCheck(domain, expiry_uuid, proc, gd)

\* commands.py:17-22: the expiry check of an entry of the file that has an expiry id
CheckExpiryOfEntry ==
    \E e \in Range(LoadDomains(file)) :
        /\ Truthy(e.expiry_uuid)
        /\ CheckDomainExpiry(e.domain, e.expiry_uuid)

\* the freshness window of a marker, seconds
Window == MAX_AGE_HOURS * SecondsPerHour

\* time passes between two invocations
Tick ==
    /\ \E d \in {Window - 1, Window} :
          /\ now + d <= MaxWindows * Window
          /\ now' = now + d
    /\ UNCHANGED <<markers, remote, run, file, probe>>

-----------------------------------------------------------------------------
(* Registry rewrite: file_handler.py:165-199 *)

ProcessedComment(line) ==
    [type |-> "comment_or_blank", content |-> line, domain |-> <<>>,
     status_uuid |-> EmptyStr, expiry_uuid |-> EmptyStr]

ProcessedDomain(domain, status_uuid, expiry_uuid) ==
    [type |-> "domain", content |-> BlankLine, domain |-> domain,
     status_uuid |-> status_uuid, expiry_uuid |-> expiry_uuid]

\* line_parts after the name: s:<id> then e:<id>, each only when the id is there
LineParts(entry) ==
    (IF Truthy(entry.status_uuid) THEN <<Token("s", entry.status_uuid)>> ELSE <<>>) \o
    (IF Truthy(entry.expiry_uuid) THEN <<Token("e", entry.expiry_uuid)>> ELSE <<>>)

RECURSIVE WriteProcessedAll(_)
\* mutant: a domain entry is written whether or not it has an id
WriteProcessedAll(entries) ==
    IF entries = <<>> THEN <<>>
    ELSE LET entry == Head(entries)
         IN  (IF entry.type = "comment_or_blank" THEN <<entry.content>>
              ELSE <<DomainLine(entry.domain, LineParts(entry))>>)
             \o WriteProcessedAll(Tail(entries))

RECURSIVE WriteProcessed(_)
\* file_handler.py:176-186: comments and blanks as they were, a domain entry only
\* when it has an id
WriteProcessed(entries) ==
    IF entries = <<>> THEN <<>>
    ELSE LET entry == Head(entries)
         IN  (IF entry.type = "comment_or_blank" THEN <<entry.content>>
              ELSE IF LineParts(entry) # <<>>
              THEN <<DomainLine(entry.domain, LineParts(entry))>>
              ELSE <<>>) \o WriteProcessed(Tail(entries))

RECURSIVE WriteNew(_)
\* file_handler.py:192-196: a new entry is written whatever ids it has
WriteNew(entries) ==
    IF entries = <<>> THEN <<>>
    ELSE <<DomainLine(Head(entries).domain, LineParts(Head(entries)))>> \o WriteNew(Tail(entries))

SyncHeader == CommentLine("# --- Checks Added by Sync Command ---")

\* rewrite_domain_file(processed_entries, new_entries)
RewriteDomainFile(processed_entries, new_entries) ==
    WriteProcessed(processed_entries) \o
    (IF new_entries # <<>> THEN <<BlankLine, SyncHeader>> \o WriteNew(new_entries) ELSE <<>>)

-----------------------------------------------------------------------------
(* create: actions/create.py *)

\* --status-only and --expiry-only exclude each other (cli.py:35-45)
Mode(status_only, expiry_only) == [status_only |-> status_only, expiry_only |-> expiry_only]

Modes == { Mode(FALSE, FALSE), Mode(TRUE, FALSE), Mode(FALSE, TRUE) }

\* the state a create run threads through its loop
StartOfCreate(r) ==
    [entries |-> <<>>, calls |-> <<>>, remote |-> r, updated |-> FALSE, last |-> EmptyStr,
     status_uuid |-> EmptyStr, expiry_uuid |-> EmptyStr]

\* api_client.create_check(domain, check_type) as the caller sees it: the id of
\* the new check, or nothing when the request is refused; the service refuses
\* the requests the environment picks and any request over its check limit
AfterCreateCheck(st, domain, check_type, refused) ==
    LET k == Len(st.calls) + 1
        accepted == k \notin refused /\ Cardinality(DOMAIN st.remote) < MaxChecks
        uuid == IF accepted THEN NewUuid(st.remote, domain, check_type) ELSE EmptyStr
    IN  [st EXCEPT !.calls = Append(@, Call("create_check", domain, None, <<check_type>>, uuid)),
                   !.remote = IF accepted THEN RemoteAfterCreate(@, domain, check_type) ELSE @,
                   !.last = uuid]

NoCreateCheck(st) == [st EXCEPT !.last = EmptyStr]

\* mutant: --expiry-only does not hold back the status check
StatusWantedInEveryMode(mode, status_uuid) == ~Truthy(status_uuid)

\* create.py:126 (and 49)
StatusWanted(mode, status_uuid) == ~mode.expiry_only /\ ~Truthy(status_uuid)

\* mutant: --expiry-only overrides the subdomain rule
ExpiryWantedExpiryOnlyOverrides(mode, expiry_uuid, is_subdomain) ==
    ~mode.status_only /\ ~Truthy(expiry_uuid) /\ (~is_subdomain \/ mode.expiry_only)

\* create.py:133 (and 57, 72): an expiry check is requested only for a name that
\* is not a subdomain
ExpiryWanted(mode, expiry_uuid, is_subdomain) ==
    ~mode.status_only /\ ~Truthy(expiry_uuid) /\ ~is_subdomain

\* create.py:126-137 (and 49-63): the missing checks of an entry of the file
EnsureChecks(st, domain, status_uuid, expiry_uuid, mode, refused) ==
    LET is_subdomain == IsSubdomain(domain)
        st1 == IF StatusWanted(mode, status_uuid)
               THEN AfterCreateCheck(st, domain, "status", refused) ELSE NoCreateCheck(st)
        st2 == IF ExpiryWanted(mode, expiry_uuid, is_subdomain)
               THEN AfterCreateCheck(st1, domain, "expiry", refused) ELSE NoCreateCheck(st1)
    IN  [st2 EXCEPT !.updated = @ \/ Truthy(st1.last) \/ Truthy(st2.last),
                    !.status_uuid = IF Truthy(st1.last) THEN st1.last ELSE status_uuid,
                    !.expiry_uuid = IF Truthy(st2.last) THEN st2.last ELSE expiry_uuid]

RECURSIVE CreateFromFileLoop(_, _, _, _)
\* create.py:109-142
CreateFromFileLoop(lines, mode, refused, st) ==
    IF lines = <<>> THEN st
    ELSE LET line == Head(lines)
         IN  IF line.kind # "domain"
             THEN CreateFromFileLoop(Tail(lines), mode, refused,
                                     [st EXCEPT !.entries = Append(@, ProcessedComment(line))])
             ELSE LET r == EnsureChecks(st, line.domain, StatusUuidOf(line),
                                        ExpiryUuidOf(line), mode, refused)
                  IN  CreateFromFileLoop(Tail(lines), mode, refused,
                          [r EXCEPT !.entries = Append(@, ProcessedDomain(line.domain,
                                                          r.status_uuid, r.expiry_uuid))])

RECURSIVE SingleDomainLoop(_, _, _, _, _)
\* create.py:23-65
SingleDomainLoop(lines, domain_to_process, mode, refused, st) ==
    IF lines = <<>> THEN st
    ELSE LET line == Head(lines)
         IN  IF line.kind # "domain"
             THEN SingleDomainLoop(Tail(lines), domain_to_process, mode, refused,
                                   [st EXCEPT !.entries = Append(@, ProcessedComment(line))])
             ELSE LET r == IF line.domain = domain_to_process
                           THEN EnsureChecks(st, domain_to_process, StatusUuidOf(line),
                                             ExpiryUuidOf(line), mode, refused)
                           ELSE [st EXCEPT !.status_uuid = StatusUuidOf(line),
                                           !.expiry_uuid = ExpiryUuidOf(line)]
                  IN  SingleDomainLoop(Tail(lines), domain_to_process, mode, refused,
                          [r EXCEPT !.entries = Append(@, ProcessedDomain(line.domain,
                                                          r.status_uuid, r.expiry_uuid))])

\* create.py:42: some line of the file names the domain
DomainFound(lines, domain_to_process) ==
    \E i \in 1..Len(lines) : lines[i].kind = "domain" /\ lines[i].domain = domain_to_process

\* create.py:67-83: the entry of a domain the file does not have
NewEntry(st, domain_to_process, mode, refused) ==
    LET st1 == IF ~mode.expiry_only
               THEN AfterCreateCheck(st, domain_to_process, "status", refused)
               ELSE NoCreateCheck(st)
        st2 == IF ExpiryWanted(mode, EmptyStr, IsSubdomain(domain_to_process))
               THEN AfterCreateCheck(st1, domain_to_process, "expiry", refused)
               ELSE NoCreateCheck(st1)
        any == Truthy(st1.last) \/ Truthy(st2.last)
    IN  [st2 EXCEPT !.updated = @ \/ any,
                    !.entries = IF any
                                THEN Append(@, ProcessedDomain(domain_to_process, st1.last, st2.last))
                                ELSE @]

\* create_for_single_domain up to the rewrite
SingleDomainRun(lines, domain_to_process, mode, refused, r) ==
    LET st == SingleDomainLoop(lines, domain_to_process, mode, refused, StartOfCreate(r))
    IN  IF DomainFound(lines, domain_to_process) THEN st
        ELSE NewEntry(st, domain_to_process, mode, refused)

\* the record of a create run
CreateRun(handler, domain, mode, st) ==
    [NoRun EXCEPT !.handler = handler, !.domain = domain,
                  !.status_only = mode.status_only, !.expiry_only = mode.expiry_only,
                  !.calls = st.calls, !.rewritten = st.updated,
                  !.outcome = IF st.updated THEN "rewritten" ELSE "unchanged"]

\* mutant: the file is rewritten whether or not an id was created
FileAfterCreateAlways(st, f) == RewriteDomainFile(st.entries, <<>>)

\* mutant: the file is written with the entry of the domain alone
FileAfterCreateOwnEntry(st, f) ==
    IF st.updated THEN RewriteDomainFile(<<Last(st.entries)>>, <<>>) ELSE f

\* create.py:144-147 (and 85-89): the file is rewritten only when updated is set
FileAfterCreate(st, f) ==
    IF st.updated THEN RewriteDomainFile(st.entries, <<>>) ELSE f

\* create_from_file(status_only, expiry_only)
CreateFromFile ==
    \E mode \in Modes :
        /\ UNCHANGED <<now, markers, probe>>
        /\ IF file = <<>>
           THEN /\ run' = [CreateRun("create_from_file", <<>>, mode, StartOfCreate(remote))
                              EXCEPT !.outcome = "nothing_to_create"]
                /\ UNCHANGED <<remote, file>>
           ELSE LET requests == Len(CreateFromFileLoop(file, mode, {}, StartOfCreate(remote)).calls)
                IN  \E refused \in SUBSET (1..requests) :
                       LET st == CreateFromFileLoop(file, mode, refused, StartOfCreate(remote))
                       IN  /\ run' = CreateRun("create_from_file", <<>>, mode, st)
                           /\ remote' = st.remote
                           /\ file' = FileAfterCreate(st, file)

\* the names "create <domain>" is run with: a root name of the file, a
\* subdomain of the file, a subdomain the file does not have
SingleDomains == { <<"a", "com">>, <<"www", "a", "com">>, <<"api", "c", "net">> }

\* create_for_single_domain(domain_to_process, status_only, expiry_only)
CreateForSingleDomain ==
    \E domain_to_process \in SingleDomains, mode \in Modes :
        LET requests == Len(SingleDomainRun(file, domain_to_process, mode, {}, remote).calls)
        IN  \E refused \in SUBSET (1..requests) :
               LET st == SingleDomainRun(file, domain_to_process, mode, refused, remote)
               IN  /\ run' = CreateRun("create_for_single_domain", domain_to_process, mode, st)
                   /\ remote' = st.remote
                   /\ file' = FileAfterCreate(st, file)
                   /\ UNCHANGED <<now, markers, probe>>

-----------------------------------------------------------------------------
(* The inventory of the service: api_client.py:132-135 *)

\* get_all_checks_details(): the checks of the account, or [] when the request
\* fails (line 135: "if response_data else []")
GetAllChecksDetails(r, pulled) == IF pulled THEN r ELSE <<>>

\* the words of the model that hold the word as a substring ('status' in tags)
WordsHolding(word) ==
    IF word = "status" THEN {"status"}
    ELSE IF word = "expiry" THEN {"expiry", "expiry_ok"}
    ELSE {word}

\* word in tags, tags being the blank-separated tag string of a check
InTagString(word, tags) == \E i \in 1..Len(tags) : tags[i] \in WordsHolding(word)

\* the replies to a request with a 2xx status: a JSON body, a body that is not
\* JSON, or no body
SuccessReplies == {"200_json", "200_text", "204_empty"}

\* _make_api_request(method, endpoint): None, or Some of what it returns, for
\* each reply of the service (api_client.py:8-51; a body that is not JSON makes
\* response.json() raise an exception that line 47 catches)
MakeApiRequest(method, reply) ==
    IF reply \notin SuccessReplies THEN None
    ELSE IF reply = "204_empty" THEN None
    ELSE IF reply = "200_json" THEN Some("json")
    ELSE IF method = "DELETE" THEN Some("status_success")
    ELSE None

\* delete_check(uuid): the value returned
DeleteCheck(uuid, reply) ==
    IF ~Truthy(uuid) THEN FALSE
    ELSE MakeApiRequest("DELETE", reply) # None

\* the service after DELETE checks/<uuid> for the ids of gone
RemoteAfterDelete(r, gone) == [id \in DOMAIN r \ gone |-> r[id]]

\* the names of the model in the order of Python's str comparison
NameOrder ==
    << <<"a", "com">>, <<"api", "c", "net">>, <<"b", "com">>, <<"b", "org">>,
       <<"d", "io">>, <<"e", "io">>, <<"mail", "b", "org">>, <<"www", "a", "com">> >>

-----------------------------------------------------------------------------
(* sync: actions/sync.py *)

\* mutant: an id of the file stays whatever the inventory holds
FinalUuidKeepsAll(current_uuid, api_uuid_set) == current_uuid

\* sync.py:47-61: the id an entry keeps, given the ids of the inventory
FinalUuid(current_uuid, api_uuid_set) ==
    IF Truthy(current_uuid) /\ current_uuid \notin api_uuid_set THEN EmptyStr ELSE current_uuid

RECURSIVE SyncLoop(_, _)
\* sync.py:28-66: processed_entries
SyncLoop(lines, api_uuid_set) ==
    IF lines = <<>> THEN <<>>
    ELSE LET line == Head(lines)
         IN  (IF line.kind # "domain" THEN <<ProcessedComment(line)>>
              ELSE <<ProcessedDomain(line.domain,
                                     FinalUuid(StatusUuidOf(line), api_uuid_set),
                                     FinalUuid(ExpiryUuidOf(line), api_uuid_set))>>)
             \o SyncLoop(Tail(lines), api_uuid_set)

\* the ids the domain lines of the file hold
FileUuids(lines) ==
    UNION { {StatusUuidOf(lines[i]), ExpiryUuidOf(lines[i])} \ {EmptyStr} :
            i \in { j \in 1..Len(lines) : lines[j].kind = "domain" } }

\* sync.py:83-86: the slot of a missing check, "" when its tags name neither kind
SlotOf(check) ==
    IF InTagString("status", check.tags) THEN "status_uuid"
    ELSE IF InTagString("expiry", check.tags) THEN "expiry_uuid"
    ELSE ""

\* the missing ids that end in the slot of the name (sync.py:77-86)
SlotCandidates(inv, missing, name, slot) ==
    { uuid \in missing : Truthy(inv[uuid].name) /\ inv[uuid].name = name
                         /\ SlotOf(inv[uuid]) = slot }

\* the loop of sync.py:77 runs over a set: of several ids for one slot the last
\* visited stays, and any of them can be the last
SlotChoices(inv, missing, name, slot) ==
    IF SlotCandidates(inv, missing, name, slot) = {} THEN {EmptyStr}
    ELSE SlotCandidates(inv, missing, name, slot)

\* the keys of missing_by_name: the names that got a slot filled
MissingNames(inv, missing) ==
    { inv[uuid].name : uuid \in { u \in missing : Truthy(inv[u].name) /\ SlotOf(inv[u]) # "" } }

RECURSIVE NewEntries(_, _, _, _)
\* sync.py:77-89: the new entries the run may end with: one per key of
\* missing_by_name, in the order of the names, each slot holding one of its
\* candidates
NewEntries(inv, missing, names, k) ==
    IF k > Len(NameOrder) THEN { <<>> }
    ELSE IF NameOrder[k] \notin names THEN NewEntries(inv, missing, names, k + 1)
    ELSE { <<ProcessedDomain(NameOrder[k], status_uuid, expiry_uuid)>> \o rest :
             status_uuid \in SlotChoices(inv, missing, NameOrder[k], "status_uuid"),
             expiry_uuid \in SlotChoices(inv, missing, NameOrder[k], "expiry_uuid"),
             rest \in NewEntries(inv, missing, names, k + 1) }

\* sync_file_with_api()
SyncFileWithApi ==
    \E pulled \in BOOLEAN :
        LET all_checks == GetAllChecksDetails(remote, pulled)
            api_uuid_set == DOMAIN all_checks
            processed_entries == SyncLoop(file, api_uuid_set)
            dropped == FileUuids(file) \ api_uuid_set
            used_api_uuids == FileUuids(file) \cap api_uuid_set
            missing_api_uuids == api_uuid_set \ used_api_uuids
            names == MissingNames(all_checks, missing_api_uuids)
            file_needs_update == dropped # {} \/ missing_api_uuids # {}
        IN  \E new_entries \in NewEntries(all_checks, missing_api_uuids, names, 1) :
               /\ file' = IF file_needs_update
                          THEN RewriteDomainFile(processed_entries, new_entries)
                          ELSE file
               /\ run' = [NoRun EXCEPT !.handler = "sync_file_with_api",
                                       !.calls = <<Call("get_all_checks", <<>>, None, <<>>, EmptyStr)>>,
                                       !.pulled = pulled,
                                       !.dropped = dropped,
                                       !.added = new_entries,
                                       !.rewritten = file_needs_update,
                                       !.outcome = IF file_needs_update THEN "rewritten"
                                                   ELSE "in_sync"]
               /\ UNCHANGED <<now, markers, remote, probe>>

-----------------------------------------------------------------------------
(* remove: actions/remove.py:44-147                                        *)
(* run.deletes is the set of ids delete_check was called with; the order   *)
(* of the calls is that of the service's listing or of a Python set.       *)

\* what the operator types at a prompt
Answers == {"YES", "no"}

RemoveRun(handler, domain, force, pulled) ==
    [NoRun EXCEPT !.handler = handler, !.domain = domain, !.force = force, !.pulled = pulled,
                  !.calls = <<Call("get_all_checks", <<>>, None, <<>>, EmptyStr)>>]

\* remove.py:54-55
UuidsToDelete(all_checks, domain_to_remove) ==
    { uuid \in DOMAIN all_checks : all_checks[uuid].name = domain_to_remove }

\* remove.py:72-74: the lines that have a first word, other than the domain
LinesToKeep(raw_lines, domain_to_remove) ==
    SelectSeq(raw_lines, LAMBDA ld : /\ ld.kind # "blank"
                                     /\ ~(ld.kind = "domain" /\ ld.domain = domain_to_remove))

\* remove.py:71-89: the file after the removal of the lines of the domain
FileAfterRemove(raw_lines, domain_to_remove) ==
    IF Len(LinesToKeep(raw_lines, domain_to_remove)) < Len(raw_lines)
    THEN LinesToKeep(raw_lines, domain_to_remove)
    ELSE raw_lines

\* remove.py:57-59: the prompt is shown when there are checks to delete and no force
NeedsPrompt(uuids_to_delete, force) == uuids_to_delete # {} /\ ~force

\* the names "remove <domain>" is run with
RemoveDomains == { <<"a", "com">>, <<"d", "io">> }

\* remove_single_domain(domain_to_remove, force)
RemoveSingleDomain ==
    \E domain_to_remove \in RemoveDomains, force \in BOOLEAN, pulled \in BOOLEAN :
        LET all_checks == GetAllChecksDetails(remote, pulled)
            uuids_to_delete == UuidsToDelete(all_checks, domain_to_remove)
            base == RemoveRun("remove_single_domain", domain_to_remove, force, pulled)
        IN  /\ UNCHANGED <<now, markers, probe>>
            /\ \E answer \in (IF NeedsPrompt(uuids_to_delete, force) THEN Answers ELSE {"YES"}) :
                  IF NeedsPrompt(uuids_to_delete, force) /\ answer # "YES"
                  THEN /\ run' = [base EXCEPT !.prompted = TRUE, !.answer = answer,
                                              !.outcome = "cancelled"]
                       /\ UNCHANGED <<remote, file>>
                  ELSE \E kept \in SUBSET uuids_to_delete :
                          /\ remote' = RemoteAfterDelete(remote, uuids_to_delete \ kept)
                          /\ file' = FileAfterRemove(file, domain_to_remove)
                          /\ run' = [base EXCEPT
                                       !.prompted = NeedsPrompt(uuids_to_delete, force),
                                       !.answer = IF NeedsPrompt(uuids_to_delete, force)
                                                  THEN answer ELSE "",
                                       !.deletes = uuids_to_delete,
                                       !.rewritten = FileAfterRemove(file, domain_to_remove) # file,
                                       !.outcome = "removed"]

\* remove.py:112-114
ClearedFile == << CommentLine("# Domain file cleared by remove-all command") >>

\* remove_all(force)
RemoveAll ==
    \E force \in BOOLEAN, answer \in Answers :
        /\ UNCHANGED <<now, markers, probe>>
        /\ force => answer = "YES"
        /\ IF ~force /\ answer # "YES"
           THEN /\ run' = [NoRun EXCEPT !.handler = "remove_all", !.prompted = TRUE,
                                        !.answer = answer, !.outcome = "cancelled"]
                /\ UNCHANGED <<remote, file>>
           ELSE \E pulled \in BOOLEAN :
                   LET all_checks == GetAllChecksDetails(remote, pulled)
                   IN  \E kept \in SUBSET DOMAIN all_checks :
                          /\ remote' = RemoteAfterDelete(remote, DOMAIN all_checks \ kept)
                          /\ file' = ClearedFile
                          /\ run' = [RemoveRun("remove_all", <<>>, force, pulled) EXCEPT
                                       !.prompted = ~force,
                                       !.answer = IF force THEN "" ELSE answer,
                                       !.deletes = DOMAIN all_checks,
                                       !.rewritten = TRUE,
                                       !.outcome = "removed"]

\* mutant: the ids of the file are taken for the unused ones
UnusedUuidsInverted(all_checks, domains_from_file) ==
    DOMAIN all_checks \cap
        ( { domains_from_file[i].status_uuid : i \in 1..Len(domains_from_file) }
          \cup { domains_from_file[i].expiry_uuid : i \in 1..Len(domains_from_file) } )

\* remove.py:129-135: the ids of the account that no valid entry of the file holds
UnusedUuids(all_checks, domains_from_file) ==
    DOMAIN all_checks \
        ( { domains_from_file[i].status_uuid : i \in 1..Len(domains_from_file) }
          \cup { domains_from_file[i].expiry_uuid : i \in 1..Len(domains_from_file) } )

\* remove_unused()
RemoveUnused ==
    \E pulled \in BOOLEAN :
        LET all_checks == GetAllChecksDetails(remote, pulled)
            unused_uuids == UnusedUuids(all_checks, LoadDomains(file))
            base == RemoveRun("remove_unused", <<>>, FALSE, pulled)
        IN  /\ UNCHANGED <<now, markers, file, probe>>
            /\ \E kept \in SUBSET unused_uuids :
                  /\ remote' = RemoteAfterDelete(remote, unused_uuids \ kept)
                  /\ run' = [base EXCEPT !.deletes = unused_uuids,
                                         !.reported = IF unused_uuids = {} THEN None
                                                      ELSE Some(Cardinality(unused_uuids)),
                                         !.outcome = IF DOMAIN all_checks = {} THEN "no_checks"
                                                     ELSE IF unused_uuids = {} THEN "none_unused"
                                                     ELSE "removed"]

-----------------------------------------------------------------------------
(* The session: a handler run on its own leaves it alone; a maintenance    *)
(* command invoked from the command line is counted                        *)

NoSession == [invoked |-> 0, stage |-> "idle", domains |-> <<>>, index |-> 0, log |-> <<>>]

\* cli.py:54-71, commands.py:25-52: one more command is invoked
Invoked ==
    /\ session.invoked < MaxCommands
    /\ session' = [session EXCEPT !.invoked = @ + 1]

-----------------------------------------------------------------------------
(* check: commands.py:9-23 and actions/check.py:7-20                       *)
(* session.domains is the list load_domains() returned, session.index the  *)
(* entry the loop is at, session.stage the call that comes next, and       *)
(* session.log the checks the command has run, in the order it ran them.   *)

\* what requests.get(https://<domain>, timeout=10) gives: a response with a
\* status code, or a RequestException of some type
HttpResponse(code) == [raised |-> "", status_code |-> code]

Raised(type) == [raised |-> type, status_code |-> 0]

SiteResponses ==
    { HttpResponse(code) : code \in {199, 200, 399, 400, 503} }
    \cup { Raised(type) : type \in {"Timeout", "ConnectionError"} }

\* check.py:12: the site counts as up
IsUp(response) == response.raised = "" /\ 200 <= response.status_code /\ response.status_code < 400

\* check.py:13, 16, 19: the ping of the status check
StatusPing(status_uuid, response) ==
    IF IsUp(response) THEN PingCheck(status_uuid, EmptyStr, None)
    ELSE IF response.raised = ""
    THEN PingCheck(status_uuid \o FailSuffix, EmptyStr, Payload(ToString(response.status_code), None))
    ELSE PingCheck(status_uuid \o FailSuffix, EmptyStr, Payload("error_" \o response.raised, None))

\* mutant: the status check also records its verdict as a tag of the status check
CheckDomainStatusTagging(domain, status_uuid, response) ==
    [NoRun EXCEPT !.handler = "check_domain_status", !.domain = domain, !.uuid = status_uuid,
                  !.outcome = IF IsUp(response) THEN "up"
                              ELSE IF response.raised = "" THEN "down" ELSE "error",
                  !.calls = <<Call("probe", domain, None, <<>>, EmptyStr)>>
                            \o StatusPing(status_uuid, response)
                            \o <<Call("update_tags", status_uuid, None,
                                      <<IF IsUp(response) THEN "up" ELSE "down">>, EmptyStr)>>]

\* check_domain_status(domain, status_uuid)
CheckDomainStatus(domain, status_uuid, response) ==
    [NoRun EXCEPT !.handler = "check_domain_status", !.domain = domain, !.uuid = status_uuid,
                  !.outcome = IF IsUp(response) THEN "up"
                              ELSE IF response.raised = "" THEN "down" ELSE "error",
                  !.calls = <<Call("probe", domain, None, <<>>, EmptyStr)>>
                            \o StatusPing(status_uuid, response)]

\* a check the command ran; failed: the site was not up, or no expiry date was found
Ran(kind, r) ==
    [domain |-> r.domain, kind |-> kind, uuid |-> r.uuid,
     failed |-> IF kind = "status" THEN r.outcome # "up"
                ELSE r.desired = Some(LOOKUP_FAILED_TAG)]

\* mutant: the loop ends at the first check that failed
AdvanceUnlessFailed(s) ==
    IF s.log # <<>> /\ Last(s.log).failed THEN [s EXCEPT !.stage = "done"]
    ELSE IF s.index < Len(s.domains) THEN [s EXCEPT !.index = @ + 1, !.stage = "status"]
    ELSE [s EXCEPT !.stage = "done"]

\* commands.py:17: the for loop goes to the next entry, or ends after the last
Advance(s) ==
    IF s.index < Len(s.domains) THEN [s EXCEPT !.index = @ + 1, !.stage = "status"]
    ELSE [s EXCEPT !.stage = "done"]

\* commands.py:10-16: action_check_domains() up to the loop
StartCheck ==
    /\ session.stage \in {"idle", "done"}
    /\ session.invoked < MaxCommands
    /\ LET domains == LoadDomains(file)
       IN  session' = [invoked |-> session.invoked + 1,
                       stage |-> IF domains = <<>> THEN "done" ELSE "status",
                       domains |-> domains,
                       index |-> IF domains = <<>> THEN 0 ELSE 1,
                       log |-> <<>>]
    /\ UNCHANGED <<now, markers, remote, run, file, probe>>

\* commands.py:19-20: the status check of the entry, if it has a status id
StatusOfEntry ==
    /\ session.stage = "status"
    /\ LET domain_data == session.domains[session.index]
       IN  IF Truthy(domain_data.status_uuid)
           THEN \E response \in SiteResponses :
                   /\ run' = CheckDomainStatus(domain_data.domain, domain_data.status_uuid, response)
                   /\ session' = [session EXCEPT !.stage = "expiry",
                                                 !.log = Append(@, Ran("status", run'))]
           ELSE /\ session' = [session EXCEPT !.stage = "expiry"]
                /\ UNCHANGED run
    /\ UNCHANGED <<now, markers, remote, file, probe>>

\* commands.py:21-22: the expiry check of the entry, if it has an expiry id;
\* then on to the next entry
ExpiryOfEntry ==
    /\ session.stage = "expiry"
    /\ LET domain_data == session.domains[session.index]
       IN  IF Truthy(domain_data.expiry_uuid)
           THEN /\ CheckDomainExpiry(domain_data.domain, domain_data.expiry_uuid)
                /\ session' = Advance([session EXCEPT !.log = Append(@, Ran("expiry", run'))])
           ELSE /\ session' = Advance(session)
                /\ UNCHANGED <<now, markers, remote, run, file, probe>>

-----------------------------------------------------------------------------
(* Spec: the expiry checks of a fixed registry, from every tag string the  *)
(* check of a.com may start with                                           *)

Registry ==
    << CommentLine("# domains"),
       DomainLine(<<"a", "com">>, <<Token("s", <<"s1">>), Token("e", <<"e1">>)>>),
       BlankLine,
       DomainLine(<<"www", "a", "com">>, <<Token("e", <<"e2">>)>>),
       DomainLine(<<"b", "com">>, <<Token("s", <<"s3">>)>>) >>

InitTags == {"expired", "expiry_ok", "vip"}

TagStrings == UNION {[1..n -> InitTags] : n \in 0..MaxTags}

NoProbe == [days_left |-> 0, tag |-> "none"]

Init ==
    /\ now = 0
    /\ markers = <<>>
    /\ \E tags \in TagStrings :
          remote = (<<"e1">> :> Check(<<"a", "com">>, tags)) @@
                   (<<"e2">> :> Check(<<"www", "a", "com">>, <<"expiry">>)) @@
                   (<<"s1">> :> Check(<<"a", "com">>, <<"status">>)) @@
                   (<<"s3">> :> Check(<<"b", "com">>, <<"status">>))
    /\ run = NoRun
    /\ file = Registry
    /\ probe = NoProbe
    /\ session = NoSession

Next ==
    \/ CheckExpiryOfEntry /\ UNCHANGED session
    \/ Tick /\ UNCHANGED session

Spec == Init /\ [][Next]_vars

-----------------------------------------------------------------------------
(* SpecClassify: the classifier applied to every number of days in range *)

Unclassified == "unclassified"

InitClassify ==
    /\ now = 0
    /\ markers = <<>>
    /\ remote = <<>>
    /\ run = NoRun
    /\ file = <<>>
    /\ \E d \in (-MaxDays)..MaxDays : probe = [days_left |-> d, tag |-> Unclassified]
    /\ session = NoSession

\* check.py:77-83 on the probe
Classify ==
    /\ probe.tag = Unclassified
    /\ probe' = [probe EXCEPT !.tag = DesiredTag(probe.days_left)]
    /\ UNCHANGED <<now, markers, remote, run, file>>

NextClassify == Classify /\ UNCHANGED session

SpecClassify == InitClassify /\ [][NextClassify]_vars

-----------------------------------------------------------------------------
-----------------------------------------------------------------------------
(* SpecExtract: the extractor applied to WHOIS texts: every one-line text  *)
(* "<label>: <value>" of the labels and values below, and every text of 2  *)
(* to MaxLines lines drawn from a smaller set of lines                     *)

\* two instants of one day: its midnight and its noon
Midnight == 20 * SecondsPerDay
Noon == Midnight + 12 * SecondsPerHour

Value(shape, at) == [shape |-> shape, at |-> at]
NoValue == Value("none", 0)

\* the shapes that write the time of day, and those that write the day only
TimedShapes == {"iso_z", "epoch10", "epoch13", "y.m.d h:m:s", "ymd h:m:s"}
DayShapes == {"y.m.d", "ymd", "y/m/d", "d/m/y", "d-m-y", "d_mon_y", "d mon y", "d month y", "ymd8"}

\* the values of the one-line texts
Values ==
    { Value(shape, at) : shape \in TimedShapes, at \in {Midnight, Noon} }
    \cup { Value(shape, Midnight) : shape \in DayShapes }
    \cup { Value(shape, 0) : shape \in {"iso_z_invalid", "d_mon_y_invalid", "garbage"} }
    \cup { NoValue }

\* the labels some pattern accepts
AcceptedLabels == UNION { Patterns[k].labels : k \in 1..Len(Patterns) }

\* labels of the one-line texts: the accepted ones, one no pattern accepts, and
\* one that ends in an accepted one
Labels ==
    AcceptedLabels \cup { <<"creation", "date">>, <<"registrar", "registration", "expiration", "date">> }

\* the lines of the longer texts; each date is of a day of its own
SomeLines ==
    { WhoisLine(<<"expiry", "date">>, "iso_z_invalid", 0),
      WhoisLine(<<"expiry", "date">>, "d_mon_y", Midnight + SecondsPerDay),
      WhoisLine(<<"expires">>, "d_mon_y_invalid", 0),
      WhoisLine(<<"expires">>, "ymd", Midnight + 2 * SecondsPerDay),
      WhoisLine(<<"expiration", "date">>, "ymd", Midnight + 3 * SecondsPerDay),
      WhoisLine(<<"registry", "expiry", "date">>, "iso_z", Noon),
      WhoisLine(<<"expiration", "time">>, "garbage", 0),
      WhoisLine(<<"expiration", "date">>, "none", 0),
      WhoisLine(<<"paid-till">>, "d mon y", Midnight + 4 * SecondsPerDay),
      WhoisLine(<<"creation", "date">>, "ymd", Midnight + 5 * SecondsPerDay),
      WhoisLine(<<>>, "ymd", Midnight + 6 * SecondsPerDay),
      WhoisLine(<<>>, "none", 0) }

Texts ==
    { <<>> }
    \cup { << [label |-> label, value |-> value] >> : label \in Labels, value \in Values }
    \cup UNION { [1..n -> SomeLines] : n \in 2..MaxLines }

InitExtract ==
    /\ now = 0
    /\ markers = <<>>
    /\ remote = <<>>
    /\ run = NoRun
    /\ file = <<>>
    /\ \E text \in Texts : probe = [text |-> text, done |-> FALSE, date |-> None]
    /\ session = NoSession

\* _parse_expiry_from_whois(whois_output) on the text of the probe
Extract ==
    /\ ~probe.done
    /\ probe' = [probe EXCEPT !.done = TRUE, !.date = ParseExpiryFromWhois(probe.text)]
    /\ UNCHANGED <<now, markers, remote, run, file>>

NextExtract == Extract /\ UNCHANGED session

SpecExtract == InitExtract /\ [][NextExtract]_vars

-----------------------------------------------------------------------------
(* SpecGodaddy: the registrar lookup applied to every setting of the two   *)
(* credentials and every kind of reply                                     *)

Credentials == {"unset", "empty", "set"}

Replies ==
    { "timeout", "connection_error", "http404", "http401", "http403", "http429", "http400",
      "http500", "not_json", "no_expires", "expires_not_text", "unparsable", "ok", "ok_offset" }

InitGodaddy ==
    /\ now = 0
    /\ markers = <<>>
    /\ remote = <<>>
    /\ run = NoRun
    /\ file = <<>>
    /\ \E key \in Credentials, secret \in Credentials, reply \in Replies :
          probe = [key |-> key, secret |-> secret,
                   gd |-> Registrar(Configured(key, secret), reply,
                                    IF reply \in {"ok", "ok_offset"} THEN Noon ELSE 0),
                   done |-> FALSE, date |-> None, requests |-> 0, raised |-> FALSE]
    /\ session = NoSession

\* _get_expiry_from_godaddy(domain) for the credentials and the reply of the probe
Lookup ==
    /\ ~probe.done
    /\ LET out == GodaddyLookup(probe.gd)
       IN  probe' = [probe EXCEPT !.done = TRUE, !.date = out.date,
                                  !.requests = out.requests, !.raised = out.raised]
    /\ UNCHANGED <<now, markers, remote, run, file>>

NextGodaddy == Lookup /\ UNCHANGED session

SpecGodaddy == InitGodaddy /\ [][NextGodaddy]_vars

-----------------------------------------------------------------------------
(* SpecLoad: load_domains over every registry file of at most MaxLines     *)
(* lines drawn from the lines below                                        *)

FileLines ==
    { BlankLine,
      CommentLine("# a.com s:s9"),
      DomainLine(<<"a", "com">>, <<>>),
      DomainLine(<<"a", "com">>, <<Token("s", <<"s1">>)>>),
      DomainLine(<<"b", "org">>, <<Token("e", <<"e2">>)>>),
      DomainLine(<<"a", "com">>, <<Token("s", <<"s1">>), Token("e", <<"e1">>)>>),
      DomainLine(<<"a", "com">>, <<Token("e", <<"e1">>), Token("s", <<"s1">>)>>),
      DomainLine(<<"b", "org">>, <<Token("s", EmptyStr)>>),
      DomainLine(<<"b", "org">>, <<Token("x", <<"s2">>), Token("e", <<"e2">>)>>),
      DomainLine(<<"b", "org">>, <<Token("x", <<"s2">>)>>) }

InitLoad ==
    /\ now = 0
    /\ markers = <<>>
    /\ remote = <<>>
    /\ run = NoRun
    /\ file \in UNION { [1..n -> FileLines] : n \in 0..MaxLines }
    /\ probe = [done |-> FALSE, entries |-> <<>>]
    /\ session = NoSession

\* load_domains() on the file
Load ==
    /\ ~probe.done
    /\ probe' = [done |-> TRUE, entries |-> LoadDomains(file)]
    /\ UNCHANGED <<now, markers, remote, run, file>>

NextLoad == Load /\ UNCHANGED session

SpecLoad == InitLoad /\ [][NextLoad]_vars

-----------------------------------------------------------------------------
(* Command line: cli.py:7-121, config.py:36-42                             *)
(* An invocation is the command word and, for each of the options domain,  *)
(* --all, --unused and --type, whether it is given.                        *)

\* parser.parse_args(): "ok", or "error" when argparse ends the process
ParseArgs(argv) ==
    LET accepts == CASE argv.command = "create" -> {"domain"}
                     [] argv.command = "remove" -> {"domain", "all", "unused"}
                     [] argv.command = "delete-markers" -> {"domain", "type", "all"}
                     [] OTHER -> {}
        known == argv.command \in {"create", "check", "remove", "list-checks", "list-domains",
                                   "delete-markers", "sync-file"}
    IN  IF ~known THEN "error"
        ELSE IF ~(argv.given \subseteq accepts) THEN "error"
        ELSE IF argv.command = "remove" /\ Cardinality(argv.given) # 1 THEN "error"
        ELSE "ok"

\* main(): the exit code of the process and the command handed to its function,
\* "none" when the process ends before
Main(api_key, argv) ==
    IF api_key # "set" THEN [exit |-> 1, dispatched |-> "none"]
    ELSE IF ParseArgs(argv) = "error" THEN [exit |-> 2, dispatched |-> "none"]
    ELSE IF argv.command = "delete-markers" /\ argv.given = {}
    THEN [exit |-> 0, dispatched |-> "none"]
    ELSE [exit |-> 0, dispatched |-> argv.command]

(* SpecCli: main() for every setting of the API key and every invocation *)

InitCli ==
    /\ now = 0
    /\ markers = <<>>
    /\ remote = <<>>
    /\ run = NoRun
    /\ file = <<>>
    /\ \E api_key \in {"unset", "empty", "set"},
          command \in {"", "create", "check", "remove", "list-checks", "list-domains",
                       "delete-markers", "sync-file", "purge"},
          given \in SUBSET {"domain", "all", "unused", "type"} :
          probe = [api_key |-> api_key, argv |-> [command |-> command, given |-> given],
                   done |-> FALSE, exit |-> 0, dispatched |-> "none"]
    /\ session = NoSession

\* one run of the process, up to the call of the command's function
RunMain ==
    /\ ~probe.done
    /\ LET out == Main(probe.api_key, probe.argv)
       IN  probe' = [probe EXCEPT !.done = TRUE, !.exit = out.exit, !.dispatched = out.dispatched]
    /\ UNCHANGED <<now, markers, remote, run, file>>

NextCli == RunMain /\ UNCHANGED session

SpecCli == InitCli /\ [][NextCli]_vars

(* SpecRegistry: create and check over a registry with ids missing *)

NewRegistry ==
    << CommentLine("# domains"),
       DomainLine(<<"a", "com">>, <<>>),
       DomainLine(<<"www", "a", "com">>, <<Token("s", <<"s1">>)>>),
       DomainLine(<<"mail", "b", "org">>, <<Token("e", <<"e3">>)>>) >>

InitRegistry ==
    /\ now = 0
    /\ markers = <<>>
    /\ remote = (<<"s1">> :> Check(<<"www", "a", "com">>, <<"status">>)) @@
                (<<"e3">> :> Check(<<"mail", "b", "org">>, <<"expiry">>))
    /\ run = NoRun
    /\ file = NewRegistry
    /\ probe = NoProbe
    /\ session = NoSession

NextRegistry ==
    \/ CreateFromFile /\ UNCHANGED session
    \/ CreateForSingleDomain /\ UNCHANGED session
    \/ CheckExpiryOfEntry /\ UNCHANGED session

SpecRegistry == InitRegistry /\ [][NextRegistry]_vars

-----------------------------------------------------------------------------
(* SpecMaintain: create, sync and remove over a registry and an account    *)
(* that disagree                                                           *)

\* the checks an account may hold at the start
CheckPool ==
    (<<"s1">> :> Check(<<"a", "com">>, <<"status">>)) @@
    (<<"e1">> :> Check(<<"a", "com">>, <<"expiry">>)) @@
    (<<"s2">> :> Check(<<"b", "org">>, <<"status">>)) @@
    (<<"x1">> :> Check(<<"d", "io">>, <<"status">>)) @@
    (<<"x2">> :> Check(<<"d", "io">>, <<"expiry_ok">>)) @@
    (<<"x3">> :> Check(<<"e", "io">>, <<"vip">>))

MaintainedRegistry ==
    << CommentLine("# domains"),
       DomainLine(<<"a", "com">>, <<Token("s", <<"s1">>), Token("e", <<"e1">>)>>),
       BlankLine,
       DomainLine(<<"b", "org">>, <<Token("s", <<"s2">>)>>),
       DomainLine(<<"mail", "b", "org">>, <<>>) >>

InitMaintain ==
    /\ now = 0
    /\ markers = <<>>
    /\ \E ids \in SUBSET DOMAIN CheckPool :
          /\ Cardinality(ids) < MaxChecks
          /\ remote = [id \in ids |-> CheckPool[id]]
    /\ run = NoRun
    /\ file = MaintainedRegistry
    /\ probe = NoProbe
    /\ session = NoSession

NextMaintain ==
    \/ Invoked /\ CreateFromFile
    \/ Invoked /\ CreateForSingleDomain
    \/ Invoked /\ SyncFileWithApi
    \/ Invoked /\ RemoveSingleDomain
    \/ Invoked /\ RemoveAll
    \/ Invoked /\ RemoveUnused

SpecMaintain == InitMaintain /\ [][NextMaintain]_vars

-----------------------------------------------------------------------------
(* SpecUnique: the maintenance commands over a registry with one line per  *)
(* name, in which a.com has its status id only; the account may hold the   *)
(* expiry check of a.com, which no line references                        *)

UniqueRegistry ==
    << CommentLine("# domains"),
       DomainLine(<<"a", "com">>, <<Token("s", <<"s1">>)>>),
       DomainLine(<<"b", "org">>, <<Token("s", <<"s2">>)>>) >>

InitUnique ==
    /\ now = 0
    /\ markers = <<>>
    /\ \E ids \in SUBSET DOMAIN CheckPool :
          /\ Cardinality(ids) < MaxChecks
          /\ remote = [id \in ids |-> CheckPool[id]]
    /\ run = NoRun
    /\ file = UniqueRegistry
    /\ probe = NoProbe
    /\ session = NoSession

SpecUnique == InitUnique /\ [][NextMaintain]_vars

-----------------------------------------------------------------------------

(* SpecResync: sync-file run again and again against an account that does *)
(* not change, from the registry and the accounts of SpecMaintain          *)

Resync ==
    /\ session.invoked < MaxCommands + 1
    /\ session' = [session EXCEPT !.invoked = @ + 1]
    /\ SyncFileWithApi

SpecResync == InitMaintain /\ [][Resync]_vars

-----------------------------------------------------------------------------

(* SpecDelete: delete_check for an id, or for no id, against the accounts  *)
(* of SpecMaintain and every reply the service can give                    *)

DeleteReplies ==
    SuccessReplies \cup {"http401", "http404", "http500", "timeout", "connection_error"}

InitDelete ==
    /\ now = 0
    /\ markers = <<>>
    /\ \E ids \in SUBSET DOMAIN CheckPool :
          /\ Cardinality(ids) < MaxChecks
          /\ remote = [id \in ids |-> CheckPool[id]]
    /\ run = NoRun
    /\ file = <<>>
    /\ \E uuid \in DOMAIN CheckPool \cup {EmptyStr}, reply \in DeleteReplies :
          /\ reply \in SuccessReplies => uuid \in DOMAIN remote
          /\ reply = "http404" => uuid \notin DOMAIN remote
          /\ probe = [uuid |-> uuid, reply |-> reply, done |-> FALSE, result |-> FALSE]
    /\ session = NoSession

\* delete_check(uuid) and what the request does to the account
DeleteCheckCall ==
    /\ ~probe.done
    /\ probe' = [probe EXCEPT !.done = TRUE, !.result = DeleteCheck(probe.uuid, probe.reply)]
    /\ remote' = IF Truthy(probe.uuid) /\ probe.reply \in SuccessReplies
                 THEN RemoteAfterDelete(remote, {probe.uuid})
                 ELSE remote
    /\ UNCHANGED <<now, markers, run, file>>

NextDelete == DeleteCheckCall /\ UNCHANGED session

SpecDelete == InitDelete /\ [][NextDelete]_vars

-----------------------------------------------------------------------------

(* SpecCheck: the check command over a registry whose entries have a       *)
(* status id, an expiry id or both. Every call of a check has a timeout    *)
(* (check.py:11, api_client.py:157, services.py:174-189), so a step that   *)
(* can be taken is taken.                                                  *)

CheckedRegistry ==
    << CommentLine("# domains"),
       DomainLine(<<"a", "com">>, <<Token("s", <<"s1">>), Token("e", <<"e1">>)>>),
       BlankLine,
       DomainLine(<<"www", "a", "com">>, <<Token("e", <<"e2">>)>>),
       DomainLine(<<"mail", "b", "org">>, <<>>),
       DomainLine(<<"b", "com">>, <<Token("s", <<"s3">>)>>) >>

InitCheck ==
    /\ now = 0
    /\ markers = <<>>
    /\ remote = (<<"e1">> :> Check(<<"a", "com">>, <<"expiry">>)) @@
                (<<"e2">> :> Check(<<"www", "a", "com">>, <<"expiry">>)) @@
                (<<"s1">> :> Check(<<"a", "com">>, <<"status">>)) @@
                (<<"s3">> :> Check(<<"b", "com">>, <<"status">>))
    /\ run = NoRun
    /\ file = CheckedRegistry
    /\ probe = NoProbe
    /\ session = NoSession

NextCheck == StartCheck \/ StatusOfEntry \/ ExpiryOfEntry

SpecCheck == InitCheck /\ [][NextCheck]_vars /\ WF_vars(NextCheck)

-----------------------------------------------------------------------------
(* SpecKind: the checks create_check made for a name, reconciled by the    *)
(* expiry check in one freshness window after the other, unreferenced by a *)
(* remove whose delete requests may fail, and found again by sync-file     *)

\* the account after create_check for a.com (status, expiry); the slug is
\* unique (api_client.py:59), so a name has one check of a kind
MadeAccount ==
    RemoteAfterCreate(RemoteAfterCreate(<<>>, <<"a", "com">>, "status"),
                      <<"a", "com">>, "expiry")

\* the ids of the checks created with the tag 'expiry'
MadeExpiry == { uuid \in DOMAIN MadeAccount : MadeAccount[uuid].tags = <<"expiry">> }

\* the ids of MadeAccount by name and kind
MadeId(domain, check_type) ==
    CHOOSE uuid \in DOMAIN MadeAccount :
        MadeAccount[uuid].name = domain /\ MadeAccount[uuid].tags = <<check_type>>

\* the registry create wrote for them
MadeRegistry ==
    << CommentLine("# domains"),
       DomainLine(<<"a", "com">>, <<Token("s", MadeId(<<"a", "com">>, "status")),
                                    Token("e", MadeId(<<"a", "com">>, "expiry"))>>) >>

InitKind ==
    /\ now = 0
    /\ markers = <<>>
    /\ remote = MadeAccount
    /\ run = NoRun
    /\ file = MadeRegistry
    /\ probe = NoProbe
    /\ session = NoSession

\* a freshness window passes between two invocations
Later ==
    /\ now + Window <= (MaxWindows + 1) * Window
    /\ now' = now + Window
    /\ UNCHANGED <<markers, remote, run, file, probe, session>>

\* one more maintenance command, of the two this specification allows
Maintained ==
    /\ session.invoked < MaxCommands + 1
    /\ session' = [session EXCEPT !.invoked = @ + 1]

NextKind ==
    \/ CheckExpiryOfEntry /\ UNCHANGED session
    \/ Later
    \/ Maintained /\ RemoveSingleDomain
    \/ Maintained /\ SyncFileWithApi

SpecKind == InitKind /\ [][NextKind]_vars

-----------------------------------------------------------------------------

(* SpecOverlap: two invocations of "create <domain>" against one registry  *)
(* file. Nothing locks the file (file_handler.py:10-21, 165-199), so the   *)
(* read of the whole file at create.py:14 and the write of the whole file  *)
(* at create.py:86 are two steps, and steps of the other invocation may    *)
(* come between them. probe holds, per invocation, its place ("idle",      *)
(* "loaded", "done"), the lines it read, the domain it was given, and the  *)
(* ids it created and wrote; overlap records that an invocation read the   *)
(* file while the other was between its read and its write.                *)

Invocations == {1, 2}

\* the domain each invocation may be given: different names
OverlapDomains == (1 :> { <<"d", "io">> }) @@ (2 :> { <<"e", "io">>, <<"a", "com">> })

OverlapRegistry ==
    << CommentLine("# domains"),
       DomainLine(<<"a", "com">>, <<Token("s", <<"s1">>)>>) >>

InitOverlap ==
    /\ now = 0
    /\ markers = <<>>
    /\ remote = (<<"s1">> :> Check(<<"a", "com">>, <<"status">>))
    /\ run = NoRun
    /\ file = OverlapRegistry
    /\ \E d1 \in OverlapDomains[1], d2 \in OverlapDomains[2] :
          probe = [pc |-> [p \in Invocations |-> "idle"],
                   lines |-> [p \in Invocations |-> <<>>],
                   domain |-> (1 :> d1) @@ (2 :> d2),
                   wrote |-> [p \in Invocations |-> {}],
                   overlap |-> FALSE]
    /\ session = NoSession

\* create.py:14: raw_lines_data = file_handler.load_domains_raw()
CreateLoads(p) ==
    /\ probe.pc[p] = "idle"
    /\ probe' = [probe EXCEPT !.pc[p] = "loaded",
                              !.lines[p] = file,
                              !.overlap = @ \/ \E q \in Invocations \ {p} : probe.pc[q] = "loaded"]
    /\ UNCHANGED <<now, markers, remote, run, file, session>>

\* create.py:23-89: the loop over the lines read, the requests to the service
\* and the rewrite of the file from those lines
CreateRewrites(p) ==
    /\ probe.pc[p] = "loaded"
    /\ \E mode \in Modes :
          LET domain_to_process == probe.domain[p]
              raw_lines_data == probe.lines[p]
              requests == Len(SingleDomainRun(raw_lines_data, domain_to_process, mode, {}, remote).calls)
          IN  \E refused \in SUBSET (1..requests) :
                 LET st == SingleDomainRun(raw_lines_data, domain_to_process, mode, refused, remote)
                 IN  /\ run' = CreateRun("create_for_single_domain", domain_to_process, mode, st)
                     /\ remote' = st.remote
                     /\ file' = FileAfterCreate(st, file)
                     /\ probe' = [probe EXCEPT
                                    !.pc[p] = "done",
                                    !.wrote[p] = (DOMAIN st.remote \ DOMAIN remote)
                                                 \cap FileUuids(FileAfterCreate(st, file))]
    /\ UNCHANGED <<now, markers, session>>

NextOverlap == \E p \in Invocations : CreateLoads(p) \/ CreateRewrites(p)

SpecOverlap == InitOverlap /\ [][NextOverlap]_vars

-----------------------------------------------------------------------------

(* Properties of the expiry check *)

ManagedVocabulary ==
    { "expired", "expires_in_<7d", "expires_in_<30d", "expires_in_<60d",
      "expires_in_<90d", "expiry_ok", "lookup_failed" }

Count(s, x) == Cardinality({i \in 1..Len(s) : s[i] = x})

IsExpiryRun == run.handler = "check_domain_expiry"

\* the run reached the reconciliation step (check.py:107)
Reconciled(r) ==
    r.handler = "check_domain_expiry" /\ r.outcome \in {"fetch_failed", "tag_present", "updated"}

Updates(r) == Len(CallsOf(r.calls, "update_tags"))

\* C1: when the tags were fetched and the desired tag is not among them, one
\* update is sent for the check, and its tag list is the fetched list without
\* the tags of the managed vocabulary, plus the desired tag once; every tag
\* outside the vocabulary is kept, as often as it occurred.
C1_TagListSent ==
    (IsExpiryRun /\ run.current # None
        /\ TheValue(run.desired) \notin Range(TheValue(run.current)))
    => LET current == TheValue(run.current)
           desired == TheValue(run.desired)
           updates == CallsOf(run.calls, "update_tags")
       IN  /\ Len(updates) = 1
           /\ updates[1].target = run.uuid
           /\ run.sent = Some(updates[1].tags)
           /\ Range(updates[1].tags) = (Range(current) \ ManagedVocabulary) \cup {desired}
           /\ Count(updates[1].tags, desired) = 1
           /\ \A t \in Range(current) \ ManagedVocabulary :
                  Count(updates[1].tags, t) = Count(current, t)

\* C1 happens: {vip, expiry_ok} with desired expires_in_<30d gives {vip, expires_in_<30d}
C1_Witness ==
    /\ IsExpiryRun
    /\ run.current = Some(<<"vip", "expiry_ok">>)
    /\ run.desired = Some("expires_in_<30d")
    /\ run.sent # None
    /\ Range(TheValue(run.sent)) = {"vip", "expires_in_<30d"}

\* C2: after a run whose fetch succeeded and whose update was accepted, the
\* tag string of the check holds exactly one tag of the managed vocabulary,
\* the desired tag of this run.
C2_OneManagedTag ==
    (IsExpiryRun /\ run.outcome = "updated" /\ run.current # None /\ run.update = "ok")
    => LET tags == remote[run.uuid].tags
           managed == {i \in 1..Len(tags) : tags[i] \in ManagedVocabulary}
       IN  /\ Cardinality(managed) = 1
           /\ \A i \in managed : Some(tags[i]) = run.desired

\* C2 happens from a tag string that held two managed tags
C2_Witness ==
    /\ IsExpiryRun /\ run.update = "ok"
    /\ run.current = Some(<<"expired", "expiry_ok">>)
    /\ run.desired = Some("expires_in_<30d")
    /\ remote[run.uuid].tags = <<"expires_in_<30d">>

\* a step that is the next invocation after a reconciliation of the same check
\* with the same desired tag, nothing but the clock having moved in between
SecondRun ==
    /\ now' = now
    /\ Reconciled(run) /\ Reconciled(run')
    /\ run'.uuid = run.uuid /\ run'.desired = run.desired

C5_OnePing ==
    (IsExpiryRun /\ run.outcome # "marker_valid")
    => LET pings == CallsOf(run.calls, "ping")
       IN  /\ Len(pings) = 1
           /\ pings[1].payload # None
           /\ IF run.outcome = "subdomain"
              THEN /\ pings[1].target = run.uuid
                   /\ TheValue(pings[1].payload).status = "skipped_subdomain"
              ELSE LET desired == TheValue(run.desired)
                       payload == TheValue(pings[1].payload)
                   IN  /\ desired \in ManagedVocabulary
                       /\ desired \in {"expired", "expires_in_<7d", "lookup_failed"}
                            => pings[1].target = run.uuid \o <<"fail">>
                       /\ desired \notin {"expired", "expires_in_<7d", "lookup_failed"}
                            => pings[1].target = run.uuid
                       /\ payload.days_left = run.days_left
                       /\ (payload.days_left = None) <=> (desired = "lookup_failed")

\* C5 happens: seven days left, a failure ping with days_left=7
C5_Witness ==
    /\ IsExpiryRun /\ run.desired = Some("expires_in_<7d")
    /\ \E i \in 1..Len(run.calls) :
          /\ run.calls[i].op = "ping"
          /\ run.calls[i].target = run.uuid \o <<"fail">>
          /\ TheValue(run.calls[i].payload).days_left = Some(7)

\* C6: an invocation for a domain whose marker is younger than 23 hours makes
\* no call at all (WHOIS, registrar, ping, fetch, update) and changes neither
\* the markers nor the remote checks.
C6_MarkerGate ==
    [][ ( /\ now' = now
          /\ run'.handler = "check_domain_expiry"
          /\ run'.domain \in DOMAIN markers
          /\ now - markers[run'.domain] < 23 * 3600 )
        => ( /\ run'.outcome = "marker_valid"
             /\ run'.calls = <<>>
             /\ markers' = markers
             /\ remote' = remote ) ]_vars

\* C6 happens: a run skipped by a marker one second short of the window
C6_Witness ==
    /\ IsExpiryRun /\ run.outcome = "marker_valid"
    /\ run.marker_age = Some(23 * 3600 - 1)
    /\ run.calls = <<>>
    /\ markers[run.domain] = 0 /\ now > 0

\* C7: is_marker_valid is true exactly when a marker exists and is less than
\* 23 hours old: true at age 0 and at 23 h less one second, false without a
\* marker; a marker of 23 hours or more is deleted by the call, a valid one kept.
C7_MarkerFreshness ==
    IsExpiryRun
    => /\ run.marker_valid <=> (run.marker_age # None /\ TheValue(run.marker_age) <= 23 * 3600 - 1)
       /\ (run.marker_age # None /\ TheValue(run.marker_age) >= 23 * 3600)
            => (~run.marker_valid /\ ~run.marker_kept)
       /\ run.marker_valid => run.marker_kept
       /\ run.marker_age = None => ~run.marker_kept

\* C7 happens: a marker of exactly 23 hours is found stale and deleted
C7_Witness ==
    /\ IsExpiryRun
    /\ run.marker_age = Some(23 * 3600)
    /\ ~run.marker_valid /\ ~run.marker_kept

\* C9: a full check runs WHOIS once; it asks the registrar, after WHOIS, exactly
\* when WHOIS gave no date; the tier is lookup_failed exactly when neither gave one.
C9_LookupOrder ==
    (IsExpiryRun /\ run.outcome \notin {"marker_valid", "subdomain"})
    => /\ Len(CallsOf(run.calls, "whois")) = 1
       /\ Len(CallsOf(run.calls, "godaddy")) = (IF run.whois_date = None THEN 1 ELSE 0)
       /\ \A i, j \in 1..Len(run.calls) :
              (run.calls[i].op = "whois" /\ run.calls[j].op = "godaddy") => i < j
       /\ (run.desired = Some("lookup_failed"))
              <=> (run.whois_date = None /\ run.registrar_date = None)
       /\ run.whois_date # None => run.registrar_date = None

\* C9 happens: WHOIS gives no date, the registrar does
C9_Witness ==
    /\ IsExpiryRun
    /\ run.whois_date = None /\ run.registrar_date # None
    /\ run.desired = Some("expires_in_<7d")
    /\ Len(CallsOf(run.calls, "godaddy")) = 1

\* C10: the ping precedes the fetch of the tags; without fetched tags no update
\* is sent; an update that fails is the last call of the run, which still holds
\* its one ping.
C10_PingThenTags ==
    Reconciled(run)
    => /\ Len(CallsOf(run.calls, "ping")) = 1
       /\ Len(CallsOf(run.calls, "get_check")) = 1
       /\ \A i, j \in 1..Len(run.calls) :
              (run.calls[i].op = "ping" /\ run.calls[j].op \in {"get_check", "update_tags"}) => i < j
       /\ run.current = None => Updates(run) = 0
       /\ run.update \in {"failed", "reply_lost"}
            => (Last(run.calls).op = "update_tags" /\ Updates(run) = 1)

\* C10 happens: the update fails after the ping
C10_Witness ==
    /\ Reconciled(run) /\ run.update = "failed"
    /\ Len(CallsOf(run.calls, "ping")) = 1
    /\ Last(run.calls).op = "update_tags"

-----------------------------------------------------------------------------
(* Properties of the classifier (SpecClassify) *)

\* C4: every number of days gets exactly one tag: expired up to 0, then
\* expires_in_<7d up to 7, <30d up to 30, <60d up to 60, <90d up to 90, and
\* expiry_ok above 90; so 0 and -5 are expired, 7 is <7d, 8 and 30 are <30d,
\* 31 is <60d, 91 is ok.
C4_Classification ==
    probe.tag # Unclassified
    => LET d == probe.days_left
           tag == probe.tag
       IN  /\ tag \in {"expired", "expires_in_<7d", "expires_in_<30d",
                       "expires_in_<60d", "expires_in_<90d", OK_TAG}
           /\ (tag = "expired") <=> (d <= 0)
           /\ (tag = "expires_in_<7d") <=> (d \in 1..7)
           /\ (tag = "expires_in_<30d") <=> (d \in 8..30)
           /\ (tag = "expires_in_<60d") <=> (d \in 31..60)
           /\ (tag = "expires_in_<90d") <=> (d \in 61..90)
           /\ (tag = OK_TAG) <=> (d > 90)
           /\ d \in {0, -5} => tag = "expired"
           /\ d = 7 => tag = "expires_in_<7d"
           /\ d \in {8, 30} => tag = "expires_in_<30d"
           /\ d = 31 => tag = "expires_in_<60d"
           /\ d = 91 => tag = OK_TAG

\* C4 happens: 31 days are classified
C4_Witness == probe = [days_left |-> 31, tag |-> "expires_in_<60d"]

-----------------------------------------------------------------------------
(* Properties of create and check together (SpecRegistry) *)

IsCreateRun == run.handler \in {"create_from_file", "create_for_single_domain"}

-----------------------------------------------------------------------------
(* Properties of create (SpecRegistry) *)

\* the step is an invocation of create: run' is its record
CreateStep == run'.handler \in {"create_from_file", "create_for_single_domain"}

\* the id of kind "s" or "e" that the registry f holds for the domain, "" without one
IdInFile(f, domain, key) ==
    IF \E i \in 1..Len(f) : f[i].kind = "domain" /\ f[i].domain = domain
    THEN LET i == CHOOSE j \in 1..Len(f) : f[j].kind = "domain" /\ f[j].domain = domain
         IN  TokenValue(f[i].tokens, key, EmptyStr)
    ELSE EmptyStr

\* the names a create run processes: every name of the file, or the one it was given
ProcessedNames(f, r) ==
    IF r.handler = "create_from_file"
    THEN { f[i].domain : i \in { j \in 1..Len(f) : f[j].kind = "domain" } }
    ELSE { r.domain }

\* the create_check requests of the run for the domain and the kind
Requests(r, domain, check_type) ==
    SelectSeq(r.calls, LAMBDA c : c.op = "create_check" /\ c.target = domain
                                  /\ c.tags = <<check_type>>)

KeyOf(check_type) == IF check_type = "status" THEN "s" ELSE "e"

Created(r) == { i \in 1..Len(r.calls) : r.calls[i].op = "create_check" /\ Truthy(r.calls[i].result) }

\* C12: a create run rewrites the file exactly when one of its requests
\* returned an id; when every request failed or none was made the file is as
\* it was.
C12_RewriteOnlyIfCreated ==
    [][ CreateStep =>
          /\ run'.rewritten <=> Created(run') # {}
          /\ Created(run') = {} => file' = file ]_vars

\* C12 happens: every request of the run failed and nothing was rewritten
C12_Witness ==
    /\ run.handler = "create_from_file"
    /\ Len(run.calls) = 2 /\ Created(run) = {}
    /\ ~run.rewritten
    /\ file = NewRegistry

-----------------------------------------------------------------------------
(* Properties of sync *)

SyncStep == run'.handler = "sync_file_with_api"

\* the domain lines of the registry f
DomainLines(f) == { i \in 1..Len(f) : f[i].kind = "domain" }

\* some line of the name in f holds the id under the key
HoldsId(f, domain, key, id) ==
    \E j \in DomainLines(f) : f[j].domain = domain /\ TokenValue(f[j].tokens, key, EmptyStr) = id

\* C13: after a sync that pulled the inventory, an id of the file that the
\* inventory lacks is in the file no more and the file was rewritten; an id
\* that the inventory holds is still in a line of the same name under the same
\* key; so every id of the file afterwards is in the inventory.
C13_SyncKeepsOnlyInventoryIds ==
    [][ SyncStep /\ run'.pulled =>
          /\ \A i \in DomainLines(file) : \A key \in {"s", "e"} :
                LET id == TokenValue(file[i].tokens, key, EmptyStr)
                IN  /\ Truthy(id) /\ id \notin DOMAIN remote =>
                          /\ id \notin FileUuids(file')
                          /\ ~HoldsId(file', file[i].domain, key, id)
                          /\ run'.rewritten /\ file' # file
                    /\ Truthy(id) /\ id \in DOMAIN remote =>
                          HoldsId(file', file[i].domain, key, id)
          /\ FileUuids(file') \subseteq DOMAIN remote
      ]_vars

\* C13 happens: the expiry id of a.com was stale and is gone, its status id stayed
C13_Witness ==
    /\ run.handler = "sync_file_with_api" /\ run.pulled
    /\ run.dropped = { <<"e1">> }
    /\ run.rewritten
    /\ HoldsId(file, <<"a", "com">>, "s", <<"s1">>)
    /\ ~HoldsId(file, <<"a", "com">>, "e", <<"e1">>)
    /\ <<"s2">> \in FileUuids(file)

\* the ids of the account that no line of the file holds
Unreferenced(f, r) == DOMAIN r \ FileUuids(f)

\* the unreferenced checks of the name whose tags hold the word
UnreferencedOfKind(f, r, name, word) ==
    { uuid \in Unreferenced(f, r) : r[uuid].name = name /\ InTagString(word, r[uuid].tags) }

\* the lines of f after the place k
LinesAfter(f, k) == { j \in DomainLines(f) : j > k }

\* C14: a sync that pulled the inventory appends one entry per name among the
\* checks that no line of the file holds, after the section header that
\* follows every line the file had; the entry holds a status id and an expiry
\* id of that name when the account has an unreferenced check of that kind.
C14_OneEntryPerUnreferencedName ==
    [][ SyncStep /\ run'.pulled =>
          LET names == { remote[uuid].name : uuid \in Unreferenced(file, remote) }
              n == Cardinality(names)
              header == Len(file') - n
          IN  /\ Len(run'.added) = n
              /\ n > 0 =>
                    /\ header >= 1 /\ file'[header] = SyncHeader
                    /\ \A j \in 1..(header - 1) :
                          \/ file'[j].kind # "domain"
                          \/ \E i \in DomainLines(file) : file[i].domain = file'[j].domain
                    /\ \A name \in names :
                          /\ Cardinality({ j \in LinesAfter(file', header) : file'[j].domain = name }) = 1
                          /\ \A j \in LinesAfter(file', header) : file'[j].domain = name =>
                                /\ UnreferencedOfKind(file, remote, name, "status") # {} =>
                                      TokenValue(file'[j].tokens, "s", EmptyStr)
                                         \in UnreferencedOfKind(file, remote, name, "status")
                                /\ UnreferencedOfKind(file, remote, name, "expiry") # {} =>
                                      TokenValue(file'[j].tokens, "e", EmptyStr)
                                         \in UnreferencedOfKind(file, remote, name, "expiry")
      ]_vars

\* the key of the slot the claim gives a check: "s" for tags holding 'status',
\* "e" for tags holding 'expiry', "s" for tags holding neither
ClaimedKey(check) ==
    IF InTagString("status", check.tags) THEN "s"
    ELSE IF InTagString("expiry", check.tags) THEN "e"
    ELSE "s"

\* C15: after a sync that pulled the inventory, every check that no line of
\* the file held is in a line of its name: under s: when its tags hold
\* 'status', under e: when they hold 'expiry', under s: when they hold
\* neither (of several checks of one name and slot the line holds one).
C15_SlotOfUnreferencedCheck ==
    [][ SyncStep /\ run'.pulled =>
          \A uuid \in Unreferenced(file, remote) :
             LET check == remote[uuid]
                 rivals == { v \in Unreferenced(file, remote) :
                               /\ remote[v].name = check.name
                               /\ ClaimedKey(remote[v]) = ClaimedKey(check) }
             IN  \E v \in rivals : HoldsId(file', check.name, ClaimedKey(check), v)
      ]_vars

-----------------------------------------------------------------------------
(* Properties of the rewritten registry *)

\* the id the line i of the file ends with under the key, in the run of the step:
\* in a sync the id it had if the inventory holds it; in a create the id it had,
\* or else the one a request of the run for its name returned
FinalId(i, key) ==
    LET id == TokenValue(file[i].tokens, key, EmptyStr)
        kind == IF key = "s" THEN "status" ELSE "expiry"
    IN  IF SyncStep THEN (IF id \in DOMAIN GetAllChecksDetails(remote, run'.pulled) THEN id ELSE EmptyStr)
        ELSE IF Truthy(id) THEN id
        ELSE IF Requests(run', file[i].domain, kind) # <<>>
        THEN Requests(run', file[i].domain, kind)[1].result
        ELSE EmptyStr

\* the entries the run of the step adds to those of the file
AddedEntries ==
    IF SyncStep THEN Len(run'.added)
    ELSE IF run'.handler = "create_for_single_domain" /\ ~DomainFound(file, run'.domain)
            /\ Created(run') # {}
    THEN 1 ELSE 0

\* the lines of the file that end the run of the step with an id
EntriesWithId == { i \in DomainLines(file) : Truthy(FinalId(i, "s")) \/ Truthy(FinalId(i, "e")) }

\* C16: when a create or a sync rewrites the file, every line that ends the
\* run with a status id or an expiry id is written with these ids, every line
\* that ends it with neither is left out, and no line without an id is written.
C16_RewriteLeavesOutIdlessEntries ==
    [][ (CreateStep \/ SyncStep) /\ run'.rewritten =>
          /\ \A i \in EntriesWithId :
                \E j \in DomainLines(file') :
                   /\ file'[j].domain = file[i].domain
                   /\ TokenValue(file'[j].tokens, "s", EmptyStr) = FinalId(i, "s")
                   /\ TokenValue(file'[j].tokens, "e", EmptyStr) = FinalId(i, "e")
          /\ Cardinality(DomainLines(file')) = Cardinality(EntriesWithId) + AddedEntries
          /\ \A j \in DomainLines(file') : file'[j].tokens # <<>>
      ]_vars

\* C16 happens: a create made the expiry check of b.org and none for
\* mail.b.org, whose line is gone from the rewritten file
C16_Witness ==
    /\ run.handler = "create_from_file" /\ run.rewritten
    /\ \E i \in 1..Len(run.calls) :
          /\ run.calls[i].target = <<"mail", "b", "org">>
          /\ ~Truthy(run.calls[i].result)
    /\ \E id \in DOMAIN remote : HoldsId(file, <<"b", "org">>, "e", id)
    /\ \A j \in DomainLines(file) : file[j].domain # <<"mail", "b", "org">>

-----------------------------------------------------------------------------
(* Properties of the registry across a pass *)

RemoveSingleStep == run'.handler = "remove_single_domain"

\* a line without its ids: what a pass may not change of it
Shape(f) ==
    [ i \in 1..Len(f) |->
        IF f[i].kind = "domain" THEN [kind |-> "domain", domain |-> f[i].domain] ELSE f[i] ]

\* the lines of f that are comments or blanks, or whose name f2 still has
Survivors(f, f2) ==
    SelectSeq(f, LAMBDA line : \/ line.kind # "domain"
                               \/ \E j \in DomainLines(f2) : f2[j].domain = line.domain)

IsPrefix(s, t) == Len(s) <= Len(t) /\ SubSeq(t, 1, Len(s)) = s

\* the pass of the step found nothing to change: a create made no check, a
\* sync found no stale id and no unreferenced check
NothingToChange ==
    \/ CreateStep /\ Created(run') = {}
    \/ SyncStep /\ run'.dropped = {}
                /\ Unreferenced(file, GetAllChecksDetails(remote, run'.pulled)) = {}

\* C17: a create or sync pass with nothing to change leaves the file as it
\* was; a create, sync or remove_single_domain pass that changes the file
\* keeps every comment line and every blank line, as they were and in their
\* order among the domain lines that stay (what a pass adds comes after them).
C17_CommentsAndBlanksKept ==
    [][ /\ NothingToChange => file' = file
        /\ (CreateStep \/ SyncStep \/ RemoveSingleStep) /\ file' # file =>
              IsPrefix(Shape(Survivors(file, file')), Shape(file'))
      ]_vars

-----------------------------------------------------------------------------
(* Properties of remove *)

RemoveAllStep == run'.handler = "remove_all"

\* the operator was asked and typed the confirmation token
Confirmed(r) == r.prompted /\ r.answer = "YES"

\* the domain lines of the registry f, in their order
EntriesOf(f) == SelectSeq(f, LAMBDA line : line.kind = "domain")

\* C18: a remove_single_domain or remove_all run without the force flag that
\* was not answered 'YES' deletes no check and leaves every entry of the file
\* as it was; a run with the force flag shows no prompt.
C18_NoRemovalWithoutConfirmation ==
    [][ RemoveSingleStep \/ RemoveAllStep =>
          /\ ~run'.force /\ ~Confirmed(run') =>
                /\ run'.deletes = {} /\ remote' = remote
                /\ EntriesOf(file') = EntriesOf(file)
          /\ run'.force => ~run'.prompted
      ]_vars

RemoveUnusedStep == run'.handler = "remove_unused"

\* C19: a remove_unused run shows no prompt and leaves the file as it was; it
\* deletes no check whose id a line of the file holds, nor any it did not ask
\* to delete; with the inventory pulled it asks to delete exactly the checks
\* whose id no line of the file holds.
C19_RemoveUnusedDeletesOnlyUnreferenced ==
    [][ RemoveUnusedStep =>
          /\ ~run'.prompted
          /\ file' = file
          /\ run'.deletes \cap FileUuids(file) = {}
          /\ (DOMAIN remote \ DOMAIN remote') \subseteq run'.deletes
          /\ \A uuid \in DOMAIN remote' : remote'[uuid] = remote[uuid]
          /\ run'.pulled => run'.deletes = DOMAIN remote \ FileUuids(file)
      ]_vars

\* C19 happens: x1 was in no line and is deleted, s1 is in the a.com line and stays
C19_Witness ==
    /\ run.handler = "remove_unused" /\ run.pulled
    /\ run.deletes = { <<"x1">> }
    /\ DOMAIN remote = { <<"s1">> }
    /\ <<"s1">> \in FileUuids(file)

-----------------------------------------------------------------------------
(* Properties of the check command *)

RECURSIVE ExpectedChecks(_)
\* the checks of the registry f in the order of its lines: for each line the
\* status check if it has an s: id, then the expiry check if it has an e: id
ExpectedChecks(f) ==
    IF f = <<>> THEN <<>>
    ELSE LET line == Head(f)
             status_uuid == TokenValue(line.tokens, "s", EmptyStr)
             expiry_uuid == TokenValue(line.tokens, "e", EmptyStr)
         IN  (IF line.kind = "domain" /\ Truthy(status_uuid)
              THEN <<[domain |-> line.domain, kind |-> "status", uuid |-> status_uuid]>>
              ELSE <<>>)
             \o (IF line.kind = "domain" /\ Truthy(expiry_uuid)
                 THEN <<[domain |-> line.domain, kind |-> "expiry", uuid |-> expiry_uuid]>>
                 ELSE <<>>)
             \o ExpectedChecks(Tail(f))

\* the checks a log names, without their results
Steps(log) ==
    [ i \in 1..Len(log) |-> [domain |-> log[i].domain, kind |-> log[i].kind, uuid |-> log[i].uuid] ]

\* some call of the run is a ping of <uuid>/fail
FailPinged(r, uuid) ==
    \E i \in 1..Len(r.calls) : IsFailPing(r.calls[i]) /\ r.calls[i].target = uuid \o FailSuffix

\* C20: the check command runs the checks of the loaded entries in the order
\* of the file, for each entry the status check if it has a status id and then
\* the expiry check if it has an expiry id; a status check whose site is down,
\* times out or cannot be reached, and an expiry check that finds no date,
\* ping <uuid>/fail; and a command that has started goes on to its last entry
\* whatever failed on the way.
C20_CheckRunsInFileOrder ==
    /\ [](IsPrefix(Steps(session.log), ExpectedChecks(file)))
    /\ [](session.stage = "done" => Steps(session.log) = ExpectedChecks(file))
    /\ [][ Len(session'.log) = Len(session.log) + 1 =>
             LET ran == Last(session'.log)
             IN  /\ run'.domain = ran.domain /\ run'.uuid = ran.uuid
                 /\ ran.kind = "status" /\ run'.outcome # "up" =>
                       Len(CallsOf(run'.calls, "ping")) = 1 /\ FailPinged(run', ran.uuid)
                 /\ ran.kind = "status" /\ run'.outcome = "up" =>
                       Len(CallsOf(run'.calls, "ping")) = 1 /\ ~FailPinged(run', ran.uuid)
                 /\ ran.kind = "expiry" /\ run'.desired = Some(LOOKUP_FAILED_TAG) =>
                       FailPinged(run', ran.uuid)
         ]_vars
    /\ (session.stage \in {"status", "expiry"} ~> session.stage = "done")

\* C20 happens: the site of a.com timed out and its expiry lookup failed, and
\* the command still ran the checks of www.a.com and b.com
C20_Witness ==
    /\ session.stage = "done"
    /\ Len(session.log) = 4
    /\ session.log[1].failed /\ session.log[2].failed
    /\ session.log[3].domain = <<"www", "a", "com">>
    /\ session.log[4].domain = <<"b", "com">> /\ session.log[4].kind = "status"
    /\ run.handler = "check_domain_status" /\ run.domain = <<"b", "com">>

\* the external operations of a check: the HTTP probe of the site, the whois
\* subprocess, the registrar lookup, the ping, the fetch of the check and the
\* update of its tags
ExternalOps == {"probe", "whois", "godaddy", "ping", "get_check", "update_tags"}

\* C21: in one check command every check of an entry is run at most once, and
\* a check issues each external operation at most once, whatever came back:
\* nothing is tried again.
C21_NoRetry ==
    /\ [][ Len(session'.log) = Len(session.log) + 1 =>
             /\ \A op \in ExternalOps : Len(CallsOf(run'.calls, op)) <= 1
             /\ \A i \in 1..Len(run'.calls) : run'.calls[i].op \in ExternalOps
         ]_vars
    /\ [](\A i, j \in 1..Len(session.log) :
             Steps(session.log)[i] = Steps(session.log)[j] => i = j)

\* C21 happens: WHOIS and the registrar gave no date, the details of the check
\* did not come back, and each was asked once
C21_Witness ==
    /\ session.stage # "idle"
    /\ run.handler = "check_domain_expiry"
    /\ run.desired = Some(LOOKUP_FAILED_TAG)
    /\ run.outcome = "fetch_failed"
    /\ Len(run.calls) = 4
    /\ run.calls[1].op = "whois" /\ run.calls[2].op = "godaddy"
    /\ run.calls[3].op = "ping" /\ run.calls[4].op = "get_check"

AnyRemoveStep == RemoveSingleStep \/ RemoveAllStep \/ RemoveUnusedStep

\* C22: a remove run asks to delete every check it targets and deletes no
\* other; the count it reports as deleted at the end is the number of checks
\* that are gone from the account.
C22_ReportedCountIsDeleted ==
    [][ AnyRemoveStep =>
          /\ (DOMAIN remote \ DOMAIN remote') \subseteq run'.deletes
          /\ run'.reported # None =>
                TheValue(run'.reported) = Cardinality(DOMAIN remote \ DOMAIN remote')
      ]_vars

-----------------------------------------------------------------------------
(* Properties of the marker of a full check *)

\* C23: an expiry check that neither a valid marker nor the subdomain rule
\* skipped leaves a marker of its domain with the time of the run, whether it
\* made a new one or refreshed an old one; a run skipped by a valid marker
\* leaves the markers as they were, a run skipped by the subdomain rule leaves
\* no marker of its domain; no run touches the marker of another domain.
C23_MarkerAfterFullCheck ==
    [][ (now' = now /\ run'.handler = "check_domain_expiry") =>
          /\ run'.outcome \notin {"marker_valid", "subdomain"} =>
                /\ Len(CallsOf(run'.calls, "whois")) = 1
                /\ MarkerExists(markers', run'.domain)
                /\ markers'[run'.domain] = now
          /\ run'.outcome = "marker_valid" => markers' = markers
          /\ run'.outcome = "subdomain" => ~MarkerExists(markers', run'.domain)
          /\ \A d \in (DOMAIN markers \cup DOMAIN markers') \ {run'.domain} :
                d \in DOMAIN markers /\ d \in DOMAIN markers' /\ markers'[d] = markers[d]
      ]_vars

\* C23 happens: a full check found a marker of 23 hours, and left one of the
\* time of the run
C23_Witness ==
    /\ IsExpiryRun /\ run.outcome \notin {"marker_valid", "subdomain"}
    /\ run.marker_age = Some(23 * 3600)
    /\ now > 0 /\ markers[run.domain] = now

-----------------------------------------------------------------------------
(* The expiry extractor, under SpecExtract *)

\* the label of the line is accepted by some pattern
Recognised(line) ==
    \E k \in 1..Len(Patterns) : \E alt \in Patterns[k].labels : IsSuffix(alt, line.label)

\* the value is written in no format of the catalog and is no UNIX timestamp
Unparsable(value) == value.shape \notin Range(FormatsToTry) \cup {"epoch10", "epoch13"}

\* the lines after line i that are not blank
LaterLines(text, i) ==
    { j \in (i + 1)..Len(text) : text[j].label # <<>> \/ text[j].value.shape # "none" }

\* nothing that parses follows the label of line i, on that line or after it
NothingParsableAfter(text, i) ==
    IF text[i].value.shape # "none"
    THEN Unparsable(FirstToken(text[i].value))
    ELSE \A j \in LaterLines(text, i) :
            (\A h \in LaterLines(text, i) : j <= h) =>
                text[j].label # <<>> \/ Unparsable(FirstToken(text[j].value))

\* C24 as stated: the extractor returns no date for a text that is empty, or has
\* no recognised expiry label, or whose recognised labels carry no value or a
\* value that parses under no format
C24_NoDateAsStated ==
    (probe.done /\ \A i \in 1..Len(probe.text) :
        Recognised(probe.text[i]) =>
            probe.text[i].value.shape = "none" \/ Unparsable(probe.text[i].value))
        => probe.date = None

\* the part of C24 that holds: the extractor returns no date for a text that is
\* empty, or has no recognised expiry label, or where after every recognised label the next word
\* of the text, on the same line or on a later one, is missing, is another
\* label, or parses under no format
C24_NoDate ==
    (probe.done /\ \A i \in 1..Len(probe.text) :
        Recognised(probe.text[i]) => NothingParsableAfter(probe.text, i))
        => probe.date = None

\* a recognised label with no value, then a line that is no date: no date
C24_Witness ==
    /\ probe.done
    /\ Len(probe.text) = 2
    /\ Recognised(probe.text[1]) /\ probe.text[1].value.shape = "none"
    /\ probe.text[2].value.shape = "garbage"
    /\ probe.date = None

\* the first line of the text that pattern k matches: a set of one line or none
FirstMatch(k, text) ==
    { i \in 1..Len(text) :
        /\ LineMatches(Patterns[k], text, i)
        /\ \A j \in 1..(i - 1) : ~LineMatches(Patterns[k], text, j) }

\* the date pattern k gives: that of the value captured at its first match
Yield(k, text) ==
    IF FirstMatch(k, text) = {} THEN None
    ELSE ParseDate(TheValue(TokenAfterLabel(text, CHOOSE i \in FirstMatch(k, text) : TRUE)))

\* C25: the extractor returns the date of the first pattern, in list order,
\* whose first match in the text captures a value that parses; a pattern whose
\* first match does not parse is passed over, its later matches are not tried;
\* when no pattern gives a date the extractor returns none
C25_PatternOrder ==
    (probe.done /\ probe.text # <<>>) =>
        /\ (\A k \in 1..Len(Patterns) : Yield(k, probe.text) = None) => probe.date = None
        /\ \A k \in 1..Len(Patterns) :
              (Yield(k, probe.text) # None /\ \A h \in 1..(k - 1) : Yield(h, probe.text) = None)
                  => probe.date = Yield(k, probe.text)

\* the first pattern matched a value that does not parse, and the date is the
\* one the second pattern captured on a later line
C25_Witness ==
    /\ probe.done
    /\ FirstMatch(1, probe.text) = {1}
    /\ Yield(1, probe.text) = None
    /\ FirstMatch(2, probe.text) = {2}
    /\ probe.date # None
    /\ probe.date = Yield(2, probe.text)

\* C26: a one-line text "<label>: <value>", with a label of some pattern and
\* a value written in a format of the catalog that the pattern captures, is
\* extracted to exactly the instant written
C26_RoundTrip ==
    (probe.done /\ Len(probe.text) = 1) =>
        \A k \in 1..Len(Patterns) :
            ( /\ probe.text[1].label \in Patterns[k].labels
              /\ probe.text[1].value.shape \in Range(FormatsToTry)
              /\ FirstToken(probe.text[1].value).shape \in Patterns[k].shapes )
                => probe.date = Some(probe.text[1].value.at)

-----------------------------------------------------------------------------
(* The registrar lookup, under SpecGodaddy *)

\* C27: the registrar lookup never lets an exception out; with the key or the
\* secret missing it returns no date and sends no request; it returns a date
\* only when both are set and the reply is a success whose 'expires' parses
C27_RegistrarLookup ==
    probe.done =>
        /\ ~probe.raised
        /\ (probe.key # "set" \/ probe.secret # "set") =>
              (probe.date = None /\ probe.requests = 0)
        /\ probe.gd.reply \notin {"ok", "ok_offset"} => probe.date = None
        /\ (probe.key = "set" /\ probe.secret = "set" /\ probe.gd.reply = "ok")
              => probe.date = Some(probe.gd.expires)

\* both credentials set, a reply whose 'expires' is not text: no date
C27_Witness ==
    /\ probe.done
    /\ probe.key = "set" /\ probe.secret = "set"
    /\ probe.gd.reply = "expires_not_text"
    /\ probe.requests = 1
    /\ probe.date = None

-----------------------------------------------------------------------------
(* The registry as loaded, under SpecLoad *)

\* the id a line gives for a key: the value after "<key>:", empty without one
IdOf(line, key) ==
    LET at == {t \in 1..Len(line.tokens) : line.tokens[t].key = key}
    IN  IF at = {} THEN EmptyStr
        ELSE line.tokens[CHOOSE t \in at : \A u \in at : u <= t].val

\* the lines that are entries: not blank, not a comment, with at least one id
EntryLines(f) ==
    { i \in 1..Len(f) :
        /\ f[i].kind = "domain"
        /\ (IdOf(f[i], "s") # EmptyStr \/ IdOf(f[i], "e") # EmptyStr) }

\* C28: load_domains returns, in file order, one entry for each line that is
\* neither blank nor a comment and holds a name and at least one s: or e: id,
\* wherever on the line the ids stand; the other lines give no entry and a
\* missing id is the empty string
C28_LoadedEntries ==
    probe.done =>
        /\ Len(probe.entries) = Cardinality(EntryLines(file))
        /\ \A i \in EntryLines(file) :
              LET n == Cardinality({j \in EntryLines(file) : j <= i})
              IN  probe.entries[n] =
                      Entry(file[i].domain, IdOf(file[i], "s"), IdOf(file[i], "e"))

\* a line with no id, then a line with the expiry id only
C28_Witness ==
    /\ probe.done
    /\ Len(file) = 2
    /\ file[1].kind = "domain" /\ file[1].tokens = <<>>
    /\ file[2].kind = "domain" /\ IdOf(file[2], "s") = EmptyStr
    /\ Len(probe.entries) = 1
    /\ probe.entries[1].status_uuid = EmptyStr
    /\ probe.entries[1].expiry_uuid # EmptyStr

-----------------------------------------------------------------------------
(* Exit codes, under SpecCli *)

\* C29: without the API key the process exits with code 1 and hands no
\* command to its function; with the key, 'remove' with none of domain, --all,
\* --unused and 'delete-markers' with none of --domain, --type, --all exit
\* with code 1
C29_ExitCodeOne ==
    probe.done =>
        /\ probe.api_key # "set" => (probe.exit = 1 /\ probe.dispatched = "none")
        /\ ( /\ probe.api_key = "set"
             /\ probe.argv.command \in {"remove", "delete-markers"}
             /\ probe.argv.given = {} ) => probe.exit = 1

-----------------------------------------------------------------------------
(* Sync when the pull of the inventory fails, under SpecMaintain *)

\* C30: a sync whose pull of the inventory failed does not rewrite the
\* registry file and leaves every id of the file in place
C30_FailedPullAborts ==
    [][ SyncStep /\ ~run'.pulled =>
          /\ ~run'.rewritten
          /\ file' = file
          /\ FileUuids(file') = FileUuids(file)
      ]_vars

-----------------------------------------------------------------------------
(* The file across remove_single_domain, under SpecMaintain *)

\* C31: a remove_single_domain that was not cancelled leaves the file as it
\* was when no domain line holds the name, and otherwise removes exactly the
\* domain lines of that name and keeps every other line
C31_RemoveTouchesOnlyTheName ==
    [][ RemoveSingleStep /\ run'.outcome = "removed" =>
          LET named == { i \in DomainLines(file) : file[i].domain = run'.domain }
              others == SelectSeq(file, LAMBDA line :
                            ~(line.kind = "domain" /\ line.domain = run'.domain))
          IN  /\ named = {} => file' = file
              /\ named # {} => file' = others
      ]_vars

-----------------------------------------------------------------------------
(* The value of delete_check, under SpecDelete *)

\* C32: delete_check returns True exactly when the check was deleted on the
\* service: the id was on the account before the call and is not after it
C32_TrueIffDeleted ==
    [][ probe'.done /\ ~probe.done =>
          (probe'.result <=> (probe.uuid \in DOMAIN remote /\ probe.uuid \notin DOMAIN remote'))
      ]_vars

-----------------------------------------------------------------------------
(* The marker after a check that failed, under Spec *)

\* a full check whose lookup gave no date, or whose tag fetch or tag update failed
FailedRun(r) ==
    /\ r.handler = "check_domain_expiry"
    /\ r.outcome \notin {"marker_valid", "subdomain"}
    /\ \/ r.desired = Some(LOOKUP_FAILED_TAG)
       \/ r.outcome = "fetch_failed"
       \/ r.outcome = "updated" /\ r.update = "failed"

\* C33: a full check that ends in lookup_failed, or whose tag fetch or tag
\* update fails, leaves a marker of the time of the run; the next check of the
\* domain, as long as that marker is less than 23 hours old, is skipped: it
\* sends no ping and no tag update and leaves the remote checks as they were
C33_FailedRunIsNotRetried ==
    [][ (now' = now /\ run'.handler = "check_domain_expiry") =>
          /\ FailedRun(run') =>
                MarkerExists(markers', run'.domain) /\ markers'[run'.domain] = now
          /\ (FailedRun(run) /\ run'.domain = run.domain) =>
                /\ MarkerExists(markers, run.domain)
                /\ now - markers[run.domain] < 23 * 3600 =>
                      /\ run'.outcome = "marker_valid"
                      /\ CallsOf(run'.calls, "ping") = <<>>
                      /\ CallsOf(run'.calls, "update_tags") = <<>>
                      /\ remote' = remote
      ]_vars

\* a run that ended in lookup_failed at time 0, one second before its marker
\* turns stale
C33_Witness ==
    /\ FailedRun(run) /\ run.desired = Some(LOOKUP_FAILED_TAG)
    /\ markers[run.domain] = 0
    /\ now = 23 * 3600 - 1

-----------------------------------------------------------------------------
(* Names of the registry, under SpecUnique *)

\* C34: no two domain lines of the registry file have the same name
C34_UniqueNames ==
    \A i, j \in DomainLines(file) : file[i].domain = file[j].domain => i = j

-----------------------------------------------------------------------------
(* Sync after sync, under SpecResync *)

\* C35: a sync that pulled the inventory, run right after a sync that pulled
\* the same inventory, finds nothing to reconcile: it does not rewrite the
\* file, leaves it as it was and appends no entry
C35_SyncFixpoint ==
    [][ ( /\ SyncStep /\ run'.pulled
          /\ run.handler = "sync_file_with_api" /\ run.pulled )
        => ( /\ ~run'.rewritten
             /\ file' = file
             /\ run'.added = <<>> ) ]_vars

-----------------------------------------------------------------------------
(* The tier 'expired' and the expiry instant, under Spec *)

\* the expiry instant a run resolved: that of WHOIS, else that of the registrar
ResolvedDate(r) == IF r.whois_date # None THEN r.whois_date ELSE r.registrar_date

\* C36: a check classifies a domain as 'expired' only when the expiry instant
\* it resolved is at or before the time of the check
C36_ExpiredOnlyWhenPast ==
    [][ ( /\ now' = now
          /\ run'.handler = "check_domain_expiry"
          /\ run'.desired = Some("expired") )
        => ( /\ ResolvedDate(run') # None
             /\ TheValue(ResolvedDate(run')) <= now ) ]_vars

\* C36, amended: a check classifies a domain as 'expired' exactly when it
\* resolved an expiry instant that is less than one day after the time of the
\* check: past, present, or up to 24 hours ahead (days_left <= 0)
C36_ExpiredWithinADay ==
    [][ (now' = now /\ run'.handler = "check_domain_expiry"
                    /\ run'.outcome \notin {"marker_valid", "subdomain"})
        => ( run'.desired = Some("expired")
               <=> ( /\ ResolvedDate(run') # None
                     /\ TheValue(ResolvedDate(run')) < now + SecondsPerDay ) ) ]_vars

\* a domain that expires in 12 hours was classified as expired, days_left 0
C36_Witness ==
    /\ IsExpiryRun
    /\ run.whois_date = Some(now + 12 * SecondsPerHour)
    /\ run.days_left = Some(0)
    /\ run.desired = Some("expired")

-----------------------------------------------------------------------------
(* The frame of the check command *)

\* the ids the entries of a file name, by slot
StatusIdsOf(f) == { e.status_uuid : e \in { d \in Range(LoadDomains(f)) : Truthy(d.status_uuid) } }

ExpiryIdsOf(f) == { e.expiry_uuid : e \in { d \in Range(LoadDomains(f)) : Truthy(d.expiry_uuid) } }

\* the check a ping goes to: its URL without the /fail ending
PingedId(call) ==
    IF IsFailPing(call) THEN SubSeq(call.target, 1, Len(call.target) - 1) ELSE call.target

\* the requests of a run stay within what the check command may do, the pings
\* going to the checks of the set given
CallsWithin(r, pinged) ==
    \A i \in 1..Len(r.calls) :
        LET c == r.calls[i]
        IN  /\ c.op \in {"probe", "whois", "godaddy", "ping", "get_check", "update_tags"}
            /\ c.op = "ping" => PingedId(c) \in pinged
            /\ c.op \in {"get_check", "update_tags"} => c.target \in ExpiryIdsOf(file)

\* the registry file and the set of remote checks stay as they are, and a check
\* whose tags change is an expiry check of the file
CheckFrame ==
    /\ file' = file
    /\ DOMAIN remote' = DOMAIN remote
    /\ \A id \in DOMAIN remote :
          /\ remote'[id].name = remote[id].name
          /\ remote'[id].tags # remote[id].tags => id \in ExpiryIdsOf(file)

\* C37 as stated: in every step of the check command the registry file keeps
\* its content, no remote check appears or disappears, and the requests that
\* reach the monitoring service are pings and tag updates of expiry checks
\* the file references.
C37_OnlyExpiryChecksTouched ==
    [][ CheckFrame /\ CallsWithin(run', ExpiryIdsOf(file)) ]_vars

\* C37, what holds: in every step of the check command the registry file keeps
\* its content, no remote check appears or disappears, a ping goes to a status
\* check or an expiry check the file references, and a tag update goes to an
\* expiry check the file references.
C37_CheckCommandFrame ==
    [][ CheckFrame /\ CallsWithin(run', StatusIdsOf(file) \cup ExpiryIdsOf(file)) ]_vars

\* the command has run over the whole file, has pinged a status check and has
\* changed the tags of an expiry check
C37_Witness ==
    /\ session.stage = "done"
    /\ \E i \in 1..Len(session.log) : session.log[i].kind = "status"
    /\ \E i \in 1..Len(session.log) : session.log[i].kind = "expiry"
    /\ remote[<<"e1">>].tags # <<"expiry">>
    /\ file = CheckedRegistry

-----------------------------------------------------------------------------
(* The kind tag of an expiry check *)

\* C38: a check created with the tag 'expiry' has, after any reconciliations,
\* a tag string in which sync reads the expiry kind ('status' not in it,
\* 'expiry' in it); and a sync that pulled the inventory and found such a
\* check in no line of the file leaves its id under e: in a line of its name
\* and under s: in no line.
C38_KindTagKept ==
    /\ [] (\A uuid \in MadeExpiry \cap DOMAIN remote :
              /\ "expiry" \in Range(remote[uuid].tags)
              /\ SlotOf(remote[uuid]) = "expiry_uuid")
    /\ [][ (session'.invoked # session.invoked /\ SyncStep /\ run'.pulled) =>
              \A uuid \in (MadeExpiry \cap DOMAIN remote) \ FileUuids(file) :
                 /\ HoldsId(file', remote[uuid].name, "e", uuid)
                 /\ \A j \in DomainLines(file') :
                       TokenValue(file'[j].tokens, "s", EmptyStr) # uuid
       ]_vars

\* a window or more after the start the expiry check of a.com carries a tier
\* tag next to 'expiry', and a sync has written its id back under e:
C38_Witness ==
    /\ run.handler = "sync_file_with_api" /\ run.pulled
    /\ Len(run.added) > 0
    /\ now >= Window
    /\ MadeId(<<"a", "com">>, "expiry") \in DOMAIN remote
    /\ Len(remote[MadeId(<<"a", "com">>, "expiry")].tags) = 2
    /\ remote[MadeId(<<"a", "com">>, "expiry")].tags # <<"expiry", "expiry_ok">>
    /\ HoldsId(file, <<"a", "com">>, "e", MadeId(<<"a", "com">>, "expiry"))

-----------------------------------------------------------------------------
(* Two invocations and one registry file *)

\* the ids an invocation created and wrote that the file holds no more
LostIds == UNION { probe.wrote[p] \ FileUuids(file) : p \in Invocations }

\* C39: an id that an invocation of create wrote into the registry file is
\* missing from the file later only when the two invocations overlapped, one
\* reading the file while the other was between its read and its write; when
\* one invocation ends before the other reads the file, every id written is
\* still in the file. (That an overlap does lose an id is the state of
\* C39_Witness.)
C39_LossOnlyWhenOverlapping ==
    LostIds # {} => probe.overlap

\* both invocations read the file before either wrote it, both created checks
\* and rewrote the file, and an id the first writer wrote is gone
C39_Witness ==
    /\ \A p \in Invocations : probe.pc[p] = "done" /\ probe.wrote[p] # {}
    /\ probe.overlap
    /\ LostIds # {}
    /\ LostIds \subseteq DOMAIN remote

====
